---- MODULE Spec2Model ----
(***************************************************************************)
(* Model of the provision-list orchestrator of automagic.py                *)
(* (provisioning-tool): the instruction queue and device record stores,    *)
(* the import of instructions, and provision_list() with the helpers it    *)
(* calls.  A dict is a function whose domain is the set of its keys, so    *)
(* that `k in rec` is `k \in DOMAIN rec`.                                  *)
(***************************************************************************)
EXTENDS Integers, Sequences, FiniteSets, TLC

\* ---- bounds of the model ------------------------------------------------
MaxQueue == 2          \* instructions an import may queue up
MaxRuns == 2           \* provision-list runs in one behaviour
MaxClock == 1          \* the wall clock takes the values 0..MaxClock

\* ---- program constants --------------------------------------------------
MaxAttempts == 10      \* transition attempts per instruction
MaxPolls == 60         \* polls of one wait for the SSID to drop
Debounce == 3          \* consecutive polls without the SSID

None == "None"
FactorySsids == {"shelly1-0001", "shelly1-0002"}
Groups == {"g1", "g2"}
GroupFilters == {None, "g1"}

VARIABLES
    queue_file,     \* the instruction queue store (args.device_queue)
    db_file,        \* the device record store (args.device_db)
    device_queue,   \* global device_queue of the running process
    device_db,      \* global device_db of the running process
    clock,          \* time.time()
    pc,             \* position of the process in main()/provision_list()
    group,          \* args.group of the run
    routers,        \* the control devices named by --ddwrt-name, in order
    ap_node,        \* index into routers of the AP slot
    sta_node,       \* index into routers of the STA slot
    current_mode,   \* cn['current_mode'] of each connection
    i,              \* position of `for rec in device_queue`
    device_ssids,   \* result of the last discovery scan
    attempts,       \* local attempts
    passes,         \* local passes
    misses,         \* local misses
    scan_stream,    \* the surveys seen by the last wait for the SSID to drop
    setup_count,    \* local setup_count
    success_count,  \* local success_count
    located,        \* configured_settings were read back for device_queue[i]
    last_op,        \* the last operation issued to a control or target device
    session_log,    \* what the last ddwrt_program_mode() issued to its device
    nvram,          \* the keys ddwrt_program_mode() has written on each control
                    \* device and not deleted since, with the role that wrote them
    ota,            \* the locals of flash_device() and what it has done
    late,           \* the polls of the last survey loop whose read timed out
    et0macaddr,     \* what the device at the address of each control device
                    \* names answers to `nvram get et0macaddr`
    wl_mode,        \* what each device answers to `nvram get wl_mode`, by
                    \* its et0macaddr
    pgm,            \* the mode, SSID and passphrase that the last call of
                    \* ddwrt_set_ap_mode() or ddwrt_set_sta_mode() of the run
                    \* passed for each device, by its et0macaddr
    bulk,           \* the locals of query() from line 1788 on, for the operation
                    \* apply, and what it has done to the devices and the db
    tn,             \* a telnet connection during ddwrt_do_cmd(): what the device
                    \* has sent and the client has not read, and the locals
    job,            \* one import row on its way through append_list() and the
                    \* join and locate steps of provision_list()
    exit_reason,    \* why the process ended; "running" while it runs, "after ..."
                    \* in a run that is marked with the end of the one before
    runs,           \* provision-list runs started so far
    loaded_queue,   \* queue_file as it was when the run started
    loaded_db       \* db_file as it was when the run started

vars == <<queue_file, db_file, device_queue, device_db, clock, pc, group,
          routers, ap_node, sta_node, current_mode, i, device_ssids, attempts,
          passes, misses, scan_stream, setup_count, success_count, located, last_op,
          session_log, nvram, ota, late, job, tn, bulk, et0macaddr, wl_mode, pgm,
          exit_reason, runs, loaded_queue, loaded_db>>

\* ---- dicts ----------------------------------------------------------------
EmptyDict == [k \in {} |-> 0]

Put(d, key, val) == [k \in DOMAIN d \cup {key} |-> IF k = key THEN val ELSE d[k]]

\* time.time(): the clock never runs backwards
Now(t) == t \in clock..MaxClock /\ clock' = t

\* ---- the control devices ---------------------------------------------------
\* router_db entries: 'ap' / 'sta' are present once that mode was learned
Router(name, mac, ap, sta) == [name |-> name, et0macaddr |-> mac, ap |-> ap, sta |-> sta]

RouterSetups ==
    { [n \in {0} |-> Router("r0", "m0", TRUE, TRUE)],
      [n \in {0, 1} |-> IF n = 0 THEN Router("r0", "m0", TRUE, FALSE)
                                 ELSE Router("r1", "m1", FALSE, TRUE)],
      [n \in {0} |-> Router("r0", "m0", TRUE, FALSE)],
      [n \in {0} |-> Router("r0", "m0", FALSE, TRUE)] }

Modes == {"ap", "sta"}

\* the et0macaddr of the devices that can be found at an address
Macs == {"m0", "m1", "m2"}

\* every address is that of the device that was learned under the name
Known(nodes) == [n \in DOMAIN nodes |-> nodes[n].et0macaddr]

\* the devices answer the modes of mode, a device that is not named answers ap
Answers(nodes, mode) ==
    [m \in Macs |-> IF \E n \in DOMAIN nodes : nodes[n].et0macaddr = m
                        THEN mode[CHOOSE n \in DOMAIN nodes : nodes[n].et0macaddr = m]
                        ELSE "ap"]

\* wl_mode, wl_ssid and wl0_wpa_psk of the pgm of a call
Pgm(mode, ssid, psk) == [wl_mode |-> mode, wl_ssid |-> ssid, wl0_wpa_psk |-> psk]

\* nothing was programmed yet
NoPgm == [m \in Macs |-> Pgm(None, None, None)]

\* the AP is always set up for the first instruction of the queue
Params_first(dq, n, ssids, mode) ==
    IF mode = "ap" THEN Pgm("ap", dq[1]["SSID"], dq[1]["Password"])
                   ELSE Pgm("sta", ssids[1], None)

\* lines 1947, 1949 and 1997: ddwrt_set_ap_mode() is called with the SSID and
\* the Password of rec, ddwrt_set_sta_mode() with device_ssids[0]
Params(dq, n, ssids, mode) ==
    IF mode = "ap" THEN Pgm("ap", dq[n]["SSID"], dq[n]["Password"])
                   ELSE Pgm("sta", ssids[1], None)

\* the device at the address is taken for the named one, whatever it answers
ddwrt_connect_to_known_router_unchecked(router, mac) == TRUE

\* lines 929-932: the device at the address answers the et0macaddr that was
\* learned under the name
ddwrt_connect_to_known_router(router, mac) == mac = router.et0macaddr

\* what `nvram get wl_mode` may answer: a mode the tool programs, or another
WlModes == Modes \cup {"wet"}

\* one or two control devices, each learned in AP mode, in client mode, in
\* both or in neither
RoleSetups ==
    { [n \in {0} |-> Router("r0", "m0", a, b)] : a \in BOOLEAN, b \in BOOLEAN }
    \cup { [n \in {0, 1} |-> IF n = 0 THEN Router("r0", "m0", c[1], c[2])
                                       ELSE Router("r1", "m1", c[3], c[4])]
             : c \in [1..4 -> BOOLEAN] }

\* l[0] of a list of indices in increasing order
First(S) == CHOOSE x \in S : \A y \in S : x <= y

Roles(ap, sta) == [ok |-> TRUE, ap |-> ap, sta |-> sta, why |-> "ok"]
NoRoles(why) == [ok |-> FALSE, ap |-> 0, sta |-> 0, why |-> why]

\* the capabilities are not checked
ddwrt_choose_roles_unchecked(nodes, mode) == Roles(0, Cardinality(DOMAIN nodes) - 1)

\* the slots keep their defaults, the first and the last device named
ddwrt_choose_roles_defaults(nodes, mode) ==
    LET n == Cardinality(DOMAIN nodes)
    IN  IF \A x \in DOMAIN nodes : ~nodes[x].ap THEN NoRoles("no AP capable device")
        ELSE IF \A x \in DOMAIN nodes : ~nodes[x].sta THEN NoRoles("no STA capable device")
        ELSE Roles(0, n - 1)

ddwrt_choose_roles(nodes, mode) ==
    LET n == Cardinality(DOMAIN nodes)
        ap_capable == {x \in DOMAIN nodes : nodes[x].ap}
        sta_capable == {x \in DOMAIN nodes : nodes[x].sta}
        current_ap == {x \in DOMAIN nodes : mode[x] = "ap"}
        current_sta == {x \in DOMAIN nodes : mode[x] = "sta"}
    IN  IF ap_capable = {} THEN NoRoles("no AP capable device")
        ELSE IF sta_capable = {} THEN NoRoles("no STA capable device")
        ELSE IF n > 1 THEN
            IF Cardinality(ap_capable) < 2
                THEN Roles(First(ap_capable), (First(ap_capable) + 1) % 2)
            ELSE IF Cardinality(sta_capable) < 2
                THEN Roles((First(sta_capable) + 1) % 2, First(sta_capable))
            ELSE IF Cardinality(current_ap) < 2
                THEN IF current_ap = {} THEN NoRoles("IndexError")
                     ELSE Roles(First(current_ap), (First(current_ap) + 1) % 2)
            ELSE IF Cardinality(current_sta) < 2
                THEN Roles((First(sta_capable) + 1) % 2, First(sta_capable))
            ELSE Roles(0, n - 1)
        ELSE Roles(0, n - 1)

\* ---- the instruction queue -------------------------------------------------
\* rows of an import file, as append_list() accepts them
ImportRows ==
    { Put(Put(EmptyDict, "SSID", "TestNet"), "Password", "abc12cd34") }
    \cup { Put(Put(Put(EmptyDict, "SSID", "TestNet"), "Password", "abc12cd34"), "Group", g)
           : g \in Groups }
    \cup { Put(EmptyDict, "ProbeIP", "192.168.1.50") }

append_list(dq, row, t) == Append(dq, Put(row, "InsertTime", t))

\* the content of file f after write_json_file( f, j )
write_json_file(f, j) == j

\* the gate reads ConfirmedTime instead of CompletedTime
IsComplete_confirmed(rec) == "ConfirmedTime" \in DOMAIN rec

\* 'CompletedTime' in rec
IsComplete(rec) == "CompletedTime" \in DOMAIN rec

\* TRUE when check_for_device_queue() returns, FALSE when it exits
check_for_device_queue(dq, grp, include_complete) ==
    /\ Len(dq) # 0
    /\ \E n \in 1..Len(dq) :
          /\ (include_complete \/ ~IsComplete(dq[n]))
          /\ (grp = None \/ ("Group" \in DOMAIN dq[n] /\ dq[n]["Group"] = grp))

\* the `continue` conditions at the head of the loop of provision_list()
Skipped(rec, grp) ==
    \/ IsComplete(rec)
    \/ (grp # None /\ ("Group" \notin DOMAIN rec \/ rec["Group"] # grp))
    \/ "SSID" \notin DOMAIN rec

\* the claim does not stamp InProgressTime
ClaimRec_nostamp(rec, ssid, t) == Put(rec, "factory_ssid", ssid)

\* rec[ 'factory_ssid' ] and rec[ 'InProgressTime' ] of a claimed instruction
ClaimRec(rec, ssid, t) == Put(Put(rec, "factory_ssid", ssid), "InProgressTime", t)

\* hardware identity (mac) reported by the device that broadcast a factory SSID
MacOf(ssid) == IF ssid = "shelly1-0001" THEN "MAC0001" ELSE "MAC0002"

\* the fields finish_up_device() sets on rec before it stores the record
FinishRec(rec, t, operation, mac, ip) ==
    Put(Put(Put(Put(Put(Put(rec, "ConfirmedTime", t), "status", mac), "settings", mac),
        "Origin", operation), "ID", mac), "IP", ip)

\* ---- operations issued to devices ------------------------------------------
NoOp == [op |-> "none", node |-> 0, i |-> 0, path |-> "none"]
Op(op, node, n, path) == [op |-> op, node |-> node, i |-> n, path |-> path]

\* ddwrt_program_mode(): fast restart when the mode is unchanged, else apply
ProgramPath(cur, mode) == IF cur = mode THEN "restart" ELSE "apply"

Single == routers[ap_node].et0macaddr = routers[sta_node].et0macaddr

\* ---- programming a control device ----------------------------------------------
\* the keys of pgm, from_db and deletes in ddwrt_set_ap_mode()
ApPgm ==
    << "pptp_use_dhcp", "wan_gateway", "wan_ipaddr", "wan_netmask", "wan_proto",
       "wl0_akm", "wl0_mode", "wl0_nctrlsb", "wl0_security_mode", "wl0_ssid",
       "wl_ssid", "wl0_wpa_psk", "wl_mode", "dns_redirect", "dnsmasq_enable" >>
ApFromDb == << "wl0_hw_rxchain", "wl0_hw_txchain", "wan_hwaddr" >>
ApDeletes == << "wan_ipaddr_buf", "wan_ipaddr_static", "wan_netmask_static", "wl0_vifs" >>

\* the keys of pgm, from_db and deletes in ddwrt_set_sta_mode()
StaPgm ==
    << "pptp_use_dhcp", "wan_gateway", "wan_ipaddr", "wan_ipaddr_static", "wan_netmask",
       "wan_netmask_static", "wan_proto", "wl0_akm", "wl0_mode", "wl0_nctrlsb",
       "wl0_security_mode", "wl0_vifs", "wl_mode", "wl0_ssid", "wl_ssid",
       "dns_redirect", "dnsmasq_enable", "wan_ipaddr_buf" >>
StaFromDb == << "sta_ifname", "wl0_hw_rxchain", "wl0_hw_txchain", "wan_hwaddr" >>
StaDeletes == << "wl0_wpa_psk" >>

\* one thing ddwrt_program_mode() does to its device: "set" / "unset" of an
\* nvram key, "commit", "restart" of the wireless services, "apply" over http,
\* "sleep", "sync" of the session, "radio" off and on
Cmd(c, k) == [cmd |-> c, key |-> k]

Each(c, keys) == [n \in 1..Len(keys) |-> Cmd(c, keys[n])]

\* lines 941-949: the keys are written and deleted, then committed
ApKeyCommands ==
    Each("set", ApPgm) \o Each("set", ApFromDb) \o Each("unset", ApDeletes)
        \o << Cmd("commit", "") >>

StaKeyCommands ==
    Each("set", StaPgm) \o Each("set", StaFromDb) \o Each("unset", StaDeletes)
        \o << Cmd("commit", "") >>

KeyCommands(mode) == IF mode = "ap" THEN ApKeyCommands ELSE StaKeyCommands

\* line 951
RestartCommands == << Cmd("restart", "") >>

\* lines 954-958
ApplyCommands == << Cmd("apply", ""), Cmd("sleep", ""), Cmd("sync", ""), Cmd("radio", "") >>

\* the commands sent through ddwrt_get_single_line_result(), which raises
Raises(c) == c.cmd \in {"set", "unset", "commit", "restart", "radio"}

\* the positions at which a call can fail
FailPoints(cmds) == { p \in 1..Len(cmds) : Raises(cmds[p]) }

\* the failures a provision-list run is checked with: the first key and the
\* last command
RunFailPoints(cmds) == { 1, Len(cmds) }

\* a command as issued, with whether it failed (non-empty stderr)
Sent(c, err) == [cmd |-> c.cmd, key |-> c.key, err |-> err]

\* a command that fails does not stop the call
RECURSIVE Issue_goes_on(_, _, _)
Issue_goes_on(cmds, p, fail_at) ==
    IF p > Len(cmds) THEN <<>>
    ELSE << Sent(cmds[p], p = fail_at) >> \o Issue_goes_on(cmds, p + 1, fail_at)

\* the commands issued from position p on: the one at fail_at raises
RECURSIVE Issue(_, _, _)
Issue(cmds, p, fail_at) ==
    IF p > Len(cmds) THEN <<>>
    ELSE IF p = fail_at THEN << Sent(cmds[p], TRUE) >>
    ELSE << Sent(cmds[p], FALSE) >> \o Issue(cmds, p + 1, fail_at)

\* the mode is always applied in full
TakesFastPath_never(cur, mode) == FALSE

\* `if cn[ 'current_mode' ] == mode`
TakesFastPath(cur, mode) == cur = mode

\* the radio is cycled before the session is synchronised again
AfterCommit_nosync(cur, mode) ==
    IF TakesFastPath(cur, mode)
        THEN RestartCommands
        ELSE << Cmd("apply", ""), Cmd("sleep", ""), Cmd("radio", ""), Cmd("sync", "") >>

\* lines 950-958
AfterCommit(cur, mode) ==
    IF TakesFastPath(cur, mode) THEN RestartCommands ELSE ApplyCommands

\* what a call issues when nothing fails
Commands(cur, mode) == KeyCommands(mode) \o AfterCommit(cur, mode)

\* what ddwrt_program_mode() issues on a connection whose current_mode is cur,
\* when the command at position fail_at fails (0: none does)
ProgramLog(cur, mode, fail_at) == Issue(Commands(cur, mode), 1, fail_at)

\* cn[ 'current_mode' ] is not set to the new mode
ddwrt_program_mode_forgets(cur, mode, fail_at) ==
    [ raised |-> fail_at \in 1..Len(Commands(cur, mode)),
      current_mode |-> cur,
      wl_mode |-> mode ]

\* ddwrt_program_mode(): whether the call raised, cn[ 'current_mode' ] after
\* it, and the wl_mode of the device after it
ddwrt_program_mode(cur, mode, fail_at) ==
    LET keys == KeyCommands(mode)
        raised == fail_at \in 1..Len(Commands(cur, mode))
        stopped == fail_at \in 1..Len(keys)
        written == \E p \in 1..Len(keys) :
                      keys[p] = Cmd("set", "wl_mode") /\ (p < fail_at \/ fail_at = 0)
    IN  [ raised |-> raised,
          current_mode |-> IF stopped \/ TakesFastPath(cur, mode) THEN cur ELSE mode,
          wl_mode |-> IF written THEN mode ELSE cur ]

\* `nvram unset k`
Unset(nv, key) == [k \in DOMAIN nv \ {key} |-> nv[k]]

\* lines 941-948 on the keys of the device: the commands from position p on
\* are issued up to the one that fails
RECURSIVE WriteKeys(_, _, _, _, _)
WriteKeys(nv, cmds, p, fail_at, mode) ==
    IF p > Len(cmds) \/ p = fail_at THEN nv
    ELSE WriteKeys(IF cmds[p].cmd = "set" THEN Put(nv, cmds[p].key, mode)
                   ELSE IF cmds[p].cmd = "unset" THEN Unset(nv, cmds[p].key)
                   ELSE nv,
                   cmds, p + 1, fail_at, mode)

\* ---- the wait for the factory SSID to drop from the survey --------------------
\* A stream of surveys: the SSID is seen in the first `lead` polls, missing in
\* the next `gap`, seen in the next `back`, and missing from then on.
Stream(lead, gap, back) == [lead |-> lead, gap |-> gap, back |-> back]

NoStream == Stream(0, 0, 0)

\* device_ssids[ 0 ] in check_ssids, poll by poll
Scans(s) ==
    [p \in 1..(MaxPolls + Debounce) |->
        \/ p <= s.lead
        \/ (p > s.lead + s.gap /\ p <= s.lead + s.gap + s.back)]

ScanStreams ==
    { Stream(lead, gap, back) :
        lead \in {0, 1, 2, 3, 54, 55, 56, 57, 58, 59, 60}, gap \in 0..4, back \in 0..3 }

\* the streams a provision-list run is checked with: the device leaves after two
\* polls, leaves at the last three polls, or never leaves
RunStreams == { Stream(2, 60, 0), Stream(57, 3, 0), Stream(60, 0, 0) }

\* a poll that sees the SSID does not reset misses
RECURSIVE WaitForDrop_noreset(_, _, _)
WaitForDrop_noreset(scans, p, m) ==
    IF m < Debounce /\ p < MaxPolls
        THEN WaitForDrop_noreset(scans, p + 1, IF scans[p + 1] THEN m ELSE m + 1)
        ELSE [passes |-> p, misses |-> m]

\* the loop polls once more than max_polls
RECURSIVE WaitForDrop_extra(_, _, _)
WaitForDrop_extra(scans, p, m) ==
    IF m < Debounce /\ p <= MaxPolls
        THEN WaitForDrop_extra(scans, p + 1, IF scans[p + 1] THEN 0 ELSE m + 1)
        ELSE [passes |-> p, misses |-> m]

\* the loop `while misses < 3 and passes < 60`
RECURSIVE WaitForDrop(_, _, _)
WaitForDrop(scans, p, m) ==
    IF m < Debounce /\ p < MaxPolls
        THEN WaitForDrop(scans, p + 1, IF scans[p + 1] THEN 0 ELSE m + 1)
        ELSE [passes |-> p, misses |-> m]

\* `if misses >= 3: break`
Dropped(m) == m >= Debounce

\* one attempt too many
AttemptsExhausted_late(a) == a > MaxAttempts

\* the attempts are never given up
AttemptsExhausted_never(a) == FALSE

\* `if attempts >= 10`
AttemptsExhausted(a) == a >= MaxAttempts

\* ---- flash_device(): the firmware update of one target device --------------------
Versions == {"v1", "v2", "v3"}
Requested == {None, "v1", "v2"}      \* new_version; None with --ota LATEST
Statuses == {"idle", "updating"}

\* what a read of /ota answers; NoAnswer when get_url() gave up and returned None
Obs(status, version) == [status |-> status, old_version |-> version]
NoAnswer == Obs(None, None)
Responses == {NoAnswer} \cup { Obs(s, v) : s \in Statuses, v \in Versions }

OtaTimeouts == {0, 3, 30}            \* --ota-timeout, in seconds
PauseTimes == {1, 3}                 \* --pause-time, in seconds
MaxIdlePasses == 10                  \* `if passes > 10`
MaxObserved == 4                     \* observations kept in ota.seq

OtaOff ==
    [ pc |-> "off", new_version |-> None, dry_run |-> FALSE, ota_timeout |-> 0,
      pause_time |-> 0, result |-> NoAnswer, new_result |-> NoAnswer, seen_updating |-> FALSE, passes |-> 0,
      elapsed |-> 0, commands |-> 0, seq |-> <<>>, outcome |-> "none" ]

\* ---- one import row, from the import file to the locate ---------------------------
Absent == "absent"                   \* the row has no such column

\* d with the key, unless the value is Absent
With(d, key, val) == IF val = Absent THEN d ELSE Put(d, key, val)

\* the rows of an import file: every column is absent, empty or filled
Rows ==
    { With(With(With(With(With(With(EmptyDict, "SSID", ssid), "Password", pw),
           "StaticIP", ip), "NetMask", mask), "Gateway", gw), "ProbeIP", probe) :
        ssid \in {Absent, "TestNet"}, pw \in {Absent, "abc12cd34"},
        ip \in {Absent, "", "10.0.0.5"}, mask \in {Absent, "", "255.255.255.0"},
        gw \in {Absent, "10.0.0.1"}, probe \in {Absent, "192.168.1.50"} }

NoJob == [ pc |-> "off", row |-> EmptyDict, rec |-> EmptyDict, method |-> "none",
           address |-> "none", error |-> "none" ]

\* `if row[ k ]`, for a column of strings
Truthy(row, k) == k \in DOMAIN row /\ row[k] # ""

\* the keys of required_keys and optional_keys that the model's rows have
RequiredKeys == {"SSID", "Password"}
OptionalKeys == {"StaticIP", "NetMask", "Gateway", "ProbeIP"}

\* append_list(): the sys.exit() of lines 2039-2042 and 2049-2051
Rejects(row) ==
    \/ \E k \in RequiredKeys : k \notin DOMAIN row /\ "ProbeIP" \notin DOMAIN row
    \/ Truthy(row, "StaticIP") /\ ~Truthy(row, "NetMask")

\* append_list(): the record r that is queued for a row (without InsertTime)
Queued(row) ==
    LET r == [k \in DOMAIN row \cap (RequiredKeys \cup OptionalKeys) |-> row[k]]
    IN  IF Truthy(row, "StaticIP") THEN Put(r, "IP", row["StaticIP"]) ELSE r

\* set_settings_url(): the ipv4_method of the join request
set_settings_url(static_ip) == IF static_ip # "" /\ static_ip # None THEN "static" ELSE "dhcp"

\* lines 1946-1962: the keys of rec that are read up to the join request
JoinReads(rec) ==
    {"SSID", "Password"}
        \cup (IF "StaticIP" \in DOMAIN rec THEN {"StaticIP", "NetMask", "Gateway"} ELSE {})

\* lines 2000-2003: the address at which the device is looked for
LocateAddress(rec, factory_ssid) ==
    IF "StaticIP" \in DOMAIN rec THEN rec["StaticIP"] ELSE factory_ssid

\* ---- ddwrt_do_cmd(): one command over the telnet connection ----------------------
\* What travels from the device to the client, piece by piece: "junk" that no
\* command of the session asked for, the "echo" of a command line, the line
\* ####BOT#### that the echo command prints, a line of "out" that the command
\* prints, the "err" text that `cat /tmp/cmd.err.out` prints, the prompt #EOT#.
Bot == "BOT"
Eot == "EOT"

\* a command: the lines it prints and what it writes to stderr
Commandlines == { [out |-> o, err |-> x] : o \in {<<>>, <<"out">>}, x \in {<<>>, <<"err">>} }

MaxCalls == 2                        \* calls of ddwrt_do_cmd() on one connection

NoConn == [ pc |-> "off", wire |-> <<>>, arrived |-> 0, cmd |-> [out |-> <<>>, err |-> <<>>],
            result |-> <<>>, err |-> <<>>, calls |-> 0 ]

\* the position of the first piece t among the first k of wire, 0 if none
Find(wire, k, t) ==
    IF \E p \in 1..k : wire[p] = t THEN First({ p \in 1..k : wire[p] = t }) ELSE 0

\* tn.read_until( t, 2 ) when the first k pieces of wire arrive within the 2
\* seconds: the data before t, or all that arrived when t is not in it
read_until(wire, k, t) ==
    LET p == Find(wire, k, t)
    IN  IF p > 0
           THEN [ data |-> SubSeq(wire, 1, p - 1), wire |-> SubSeq(wire, p + 1, Len(wire)),
                  arrived |-> k - p ]
           ELSE [ data |-> SubSeq(wire, 1, k), wire |-> SubSeq(wire, k + 1, Len(wire)),
                  arrived |-> 0 ]

\* ---- query() with the operation apply ------------------------------------------------
\* the devices of device_db that match the query; d3 has Access Periodic
Devices == {"d1", "d2", "d3"}

Continuous(d) == d # "d3"

\* `if passes > 10` of line 1848
MaxPasses == 10

\* the passes after which a wait for a Periodic device is left alone
MaxBulkPasses == 12

\* configured_settings before the first call of apply()
Unbound == "unbound"

NoBulk == [ pc |-> "off", reads |-> FALSE, todo |-> <<>>, k |-> 0, done |-> {}, passes |-> 0,
            data |-> None, configured_settings |-> Unbound,
            applied |-> [d \in Devices |-> 0], settings |-> [d \in Devices |-> d] ]

\* the lists of devices without a repetition
Todos == UNION { { t \in [1..n -> Devices] : \A a \in 1..n, b \in 1..n : t[a] = t[b] => a = b }
                 : n \in 0..3 }

\* [ r for r in todo if r not in done ]
RECURSIVE Remaining(_, _)
Remaining(todo, done) ==
    IF todo = <<>> THEN <<>>
    ELSE IF Head(todo) \in done THEN Remaining(Tail(todo), done)
    ELSE <<Head(todo)>> \o Remaining(Tail(todo), done)

\* line 1848: passes > 10 and continuous_count == total_count
GivesUp(n, todo) ==
    n > MaxPasses /\ \A x \in 1..Len(todo) : Continuous(todo[x])

\* ---- the state after construction -------------------------------------------
\* the stores and the locals of provision_list() before any process has run
Constructed ==
    /\ queue_file = <<>>
    /\ db_file = EmptyDict
    /\ device_queue = <<>>
    /\ device_db = EmptyDict
    /\ clock = 0
    /\ pc = "idle"
    /\ group = None
    /\ routers \in RouterSetups
    /\ current_mode = [n \in DOMAIN routers |-> "ap"]
    /\ ap_node = 0
    /\ sta_node = 0
    /\ i = 1
    /\ device_ssids = <<>>
    /\ attempts = 0
    /\ passes = 0
    /\ misses = 0
    /\ scan_stream = NoStream
    /\ setup_count = 0
    /\ success_count = 0
    /\ located = FALSE
    /\ last_op = NoOp
    /\ session_log = <<>>
    /\ nvram = [n \in DOMAIN routers |-> EmptyDict]
    /\ et0macaddr = Known(routers)
    /\ wl_mode = Answers(routers, current_mode)
    /\ pgm = NoPgm
    /\ late = {}
    /\ exit_reason = "none"
    /\ runs = 0
    /\ loaded_queue = <<>>
    /\ loaded_db = EmptyDict

Init == Constructed /\ ota = OtaOff /\ job = NoJob /\ tn = NoConn /\ bulk = NoBulk

\* the locals of provision_list() in a process that has not reached them
FreshLocals ==
    /\ ap_node' = 0
    /\ sta_node' = 0
    /\ i' = 1
    /\ device_ssids' = <<>>
    /\ attempts' = 0
    /\ passes' = 0
    /\ misses' = 0
    /\ scan_stream' = NoStream
    /\ setup_count' = 0
    /\ success_count' = 0
    /\ located' = FALSE
    /\ last_op' = NoOp
    /\ session_log' = <<>>
    /\ late' = {}
    /\ pgm' = NoPgm

Exit(reason) == pc' = "idle" /\ exit_reason' = reason

\* ---- import: main() with operation import, one row ---------------------------
Import ==
    /\ pc = "idle"
    /\ Len(queue_file) < MaxQueue
    /\ \E row \in ImportRows, t \in clock..MaxClock :
          /\ Now(t)
          /\ device_queue' = append_list(queue_file, row, t)
          /\ queue_file' = write_json_file(queue_file, device_queue')
    /\ exit_reason' = "import"
    /\ FreshLocals
    /\ UNCHANGED <<db_file, device_db, pc, group, routers, current_mode, runs,
                   loaded_queue, loaded_db, nvram, ota, job, tn, bulk, et0macaddr, wl_mode>>

\* ---- main() with operation provision-list: load the stores -------------------
StartRunOf(marks) ==
    /\ pc = "idle"
    /\ runs < MaxRuns
    /\ runs' = runs + 1
    /\ \E g \in GroupFilters : group' = g
    /\ device_queue' = queue_file
    /\ device_db' = Put(db_file, "format", "automagic")
    /\ loaded_queue' = queue_file
    /\ loaded_db' = db_file
    /\ FreshLocals
    /\ pc' = "check"
    /\ exit_reason' = IF exit_reason \in marks THEN "after " \o exit_reason ELSE "running"
    /\ UNCHANGED <<queue_file, db_file, clock, routers, current_mode, nvram, ota, job, tn, bulk, et0macaddr, wl_mode>>

StartRun == StartRunOf({})

\* ---- provision_list() --------------------------------------------------------
CheckQueue ==
    /\ pc = "check"
    /\ IF check_for_device_queue(device_queue, group, FALSE)
          THEN pc' = "roles" /\ UNCHANGED exit_reason
          ELSE Exit("nothing to provision")
    /\ UNCHANGED <<queue_file, db_file, device_queue, device_db, clock, group, routers,
                   ap_node, sta_node, current_mode, i, device_ssids, attempts, passes,
                   misses, scan_stream, setup_count, success_count, located, last_op, runs,
                   loaded_queue, loaded_db, session_log, nvram, ota, late, job, tn, bulk, et0macaddr, wl_mode, pgm>>

\* ddwrt_choose_roles(): every device named is connected to, in the order of
\* the names, and the roles are chosen from what the devices answered
ChooseRoles ==
    /\ pc = "roles"
    /\ IF \E n \in DOMAIN routers : ~ddwrt_connect_to_known_router(routers[n], et0macaddr[n])
          THEN /\ Exit("unknown device")
               /\ UNCHANGED <<ap_node, sta_node, current_mode>>
          ELSE LET mode == [n \in DOMAIN routers |-> wl_mode[et0macaddr[n]]]
                   r == ddwrt_choose_roles(routers, mode)
               IN  /\ current_mode' = mode
                   /\ IF r.ok
                         THEN /\ ap_node' = r.ap
                              /\ sta_node' = r.sta
                              /\ pc' = "next"
                              /\ UNCHANGED exit_reason
                         ELSE /\ Exit(r.why)
                              /\ UNCHANGED <<ap_node, sta_node>>
    /\ UNCHANGED <<queue_file, db_file, device_queue, device_db, clock, group, routers,
                   i, device_ssids, attempts, passes, misses, scan_stream, setup_count,
                   success_count, located, last_op, runs, loaded_queue, loaded_db,
                   session_log, nvram, ota, late, job, tn, bulk, et0macaddr, wl_mode, pgm>>

\* head of `for rec in device_queue`, and the summary after the loop
NextRec ==
    /\ pc = "next"
    /\ IF i > Len(device_queue)
          THEN Exit("done") /\ UNCHANGED <<i, setup_count>>
          ELSE IF Skipped(device_queue[i], group)
                  THEN i' = i + 1 /\ UNCHANGED <<pc, exit_reason, setup_count>>
                  ELSE /\ setup_count' = setup_count + 1
                       /\ pc' = "discover"
                       /\ UNCHANGED <<i, exit_reason>>
    /\ located' = FALSE
    /\ UNCHANGED <<queue_file, db_file, device_queue, device_db, clock, group, routers,
                   ap_node, sta_node, current_mode, device_ssids, attempts, passes,
                   misses, scan_stream, success_count, last_op, runs, loaded_queue, loaded_db, session_log, nvram, ota, late, job, tn, bulk, et0macaddr, wl_mode, pgm>>

\* ddwrt_discover(): the SSIDs of the response that start with the prefix; the
\* read of ddwrt_do_cmd() returns what has arrived when its 2 seconds are over,
\* which is taken here to end before the lines of the survey
ddwrt_discover(in_range, timed_out) == IF timed_out THEN <<>> ELSE in_range

\* one pass of the discovery loop: a site survey through sta_node, whose read
\* may time out when `timeouts` has TRUE
DiscoverOf(timeouts) ==
    /\ pc = "discover"
    /\ \E in_range \in {<<>>} \cup {<<s>> : s \in FactorySsids}, timed_out \in timeouts :
          LET found == ddwrt_discover(in_range, timed_out)
          IN  /\ device_ssids' = found
              /\ late' = IF timed_out THEN {1} ELSE {}
              /\ pc' = IF Len(found) > 0 THEN "claim" ELSE "discover"
    /\ last_op' = Op("scan", sta_node, i, "none")
    /\ UNCHANGED <<queue_file, db_file, device_queue, device_db, clock, group, routers,
                   ap_node, sta_node, current_mode, i, attempts, passes, misses,
                   scan_stream, setup_count, success_count, located, exit_reason, runs,
                   loaded_queue, loaded_db, session_log, nvram, ota, job, tn, bulk, et0macaddr, wl_mode, pgm>>

Discover == DiscoverOf({FALSE})

\* the factory device is bound to the instruction and the queue is rewritten
Claim ==
    /\ pc = "claim"
    /\ \E t \in clock..MaxClock :
          /\ Now(t)
          /\ device_queue' = [device_queue EXCEPT
                                ![i] = ClaimRec(device_queue[i], device_ssids[1], t)]
    /\ queue_file' = write_json_file(queue_file, device_queue')
    /\ attempts' = 0
    /\ pc' = "attempt"
    /\ UNCHANGED <<db_file, device_db, group, routers, ap_node, sta_node, current_mode,
                   i, device_ssids, passes, misses, scan_stream, setup_count, success_count, located,
                   last_op, exit_reason, runs, loaded_queue, loaded_db, session_log, nvram, ota, late, job, tn, bulk, et0macaddr, wl_mode, pgm>>

\* ddwrt_set_ap_mode() / ddwrt_set_sta_mode() of node n: the call goes through
\* or one of its commands fails.  When the session is watched, every command
\* fails in turn and what the call issued is kept in session_log; otherwise
\* the first and the last command fail in turn.  The connection is read again
\* from the device (nvram get wl_mode) when the next process connects.
Programmed(n, op, mode, watched, then) ==
    LET cmds == Commands(current_mode[n], mode)
    IN  \E fail_at \in {0} \cup (IF watched THEN FailPoints(cmds) ELSE RunFailPoints(cmds)) :
            LET r == ddwrt_program_mode(current_mode[n], mode, fail_at)
            IN  /\ session_log' = IF watched THEN ProgramLog(current_mode[n], mode, fail_at)
                                              ELSE session_log
                /\ nvram' = IF watched
                                THEN [nvram EXCEPT ![n] = WriteKeys(@, KeyCommands(mode), 1, fail_at, mode)]
                                ELSE nvram
                /\ last_op' = Op(op, n, i, ProgramPath(current_mode[n], mode))
                /\ wl_mode' = [wl_mode EXCEPT ![et0macaddr[n]] = r.wl_mode]
                /\ pgm' = [pgm EXCEPT ![et0macaddr[n]] = Params(device_queue, i, device_ssids, mode)]
                /\ IF r.raised
                      THEN /\ current_mode' = [current_mode EXCEPT ![n] = r.wl_mode]
                           /\ Exit("CommandError")
                      ELSE /\ current_mode' = [current_mode EXCEPT ![n] = r.current_mode]
                           /\ pc' = then
                           /\ UNCHANGED exit_reason

\* the AP is configured first, with one control device too
AttemptSetApOf_always(watched) ==
    /\ pc = "attempt"
    /\ attempts' = attempts + 1
    /\ Programmed(ap_node, "set_ap", "ap", watched, "set_sta")
    /\ UNCHANGED <<queue_file, db_file, device_queue, device_db, clock, group, routers,
                   ap_node, sta_node, i, device_ssids, passes, misses, scan_stream,
                   setup_count, success_count, located, runs, loaded_queue, loaded_db, ota, late, job, tn, bulk, et0macaddr>>

\* attempts += 1 and, with two control devices, the AP is configured first
AttemptSetApOf(watched) ==
    /\ pc = "attempt"
    /\ attempts' = attempts + 1
    /\ IF ~Single
          THEN Programmed(ap_node, "set_ap", "ap", watched, "set_sta")
          ELSE /\ pc' = "set_sta"
               /\ UNCHANGED <<current_mode, wl_mode, pgm, last_op, session_log, nvram, exit_reason>>
    /\ UNCHANGED <<queue_file, db_file, device_queue, device_db, clock, group, routers,
                   ap_node, sta_node, i, device_ssids, passes, misses, scan_stream,
                   setup_count, success_count, located, runs, loaded_queue, loaded_db, ota, late, job, tn, bulk, et0macaddr>>

AttemptSetAp == AttemptSetApOf(FALSE)

\* ddwrt_set_sta_mode( sta_node, device_ssids[0] )
AttemptSetStaOf(watched) ==
    /\ pc = "set_sta"
    /\ Programmed(sta_node, "set_sta", "sta", watched, "status")
    /\ UNCHANGED <<queue_file, db_file, device_queue, device_db, clock, group, routers,
                   ap_node, sta_node, i, device_ssids, attempts, passes, misses,
                   scan_stream, setup_count, success_count, located, runs,
                   loaded_queue, loaded_db, ota, late, job, tn, bulk, et0macaddr>>

AttemptSetSta == AttemptSetStaOf(FALSE)

\* the status of the factory device is read through sta_node and parsed
InitialStatus ==
    /\ pc = "status"
    /\ \E answered \in BOOLEAN :
          IF answered THEN pc' = "push" /\ UNCHANGED exit_reason
                      ELSE Exit("JSONDecodeError")
    /\ last_op' = Op("wget_status", sta_node, i, "none")
    /\ UNCHANGED <<queue_file, db_file, device_queue, device_db, clock, group, routers,
                   ap_node, sta_node, current_mode, i, device_ssids, attempts, passes,
                   misses, scan_stream, setup_count, success_count, located, runs,
                   loaded_queue, loaded_db, session_log, nvram, ota, late, job, tn, bulk, et0macaddr, wl_mode, pgm>>

\* the join request is pushed to the factory device through sta_node
PushSettings ==
    /\ pc = "push"
    /\ last_op' = Op("push_join", sta_node, i, "none")
    /\ pc' = "survey"
    /\ UNCHANGED <<queue_file, db_file, device_queue, device_db, clock, group, routers,
                   ap_node, sta_node, current_mode, i, device_ssids, attempts, passes,
                   misses, scan_stream, setup_count, success_count, located, exit_reason,
                   runs, loaded_queue, loaded_db, session_log, nvram, ota, late, job, tn, bulk, et0macaddr, wl_mode, pgm>>

\* `device_ssids[ 0 ] in check_ssids`, poll by poll, when the reads of the polls
\* of l time out
Heard(scans, l) == [p \in DOMAIN scans |-> scans[p] /\ p \notin l]

\* wait for site_survey to drop the device: the polls go through ap_node, the
\* SSID is in range as one of the given streams says, and the reads of the polls
\* of one of the given sets time out
SurveyLate(streams, lates) ==
    /\ pc = "survey"
    /\ \E s \in streams, l \in lates :
          /\ scan_stream' = s
          /\ late' = l
          /\ LET r == WaitForDrop(Heard(Scans(s), l), 0, 0)
             IN  passes' = r.passes /\ misses' = r.misses
    /\ last_op' = Op("scan", ap_node, i, "none")
    /\ pc' = "check_drop"
    /\ UNCHANGED <<queue_file, db_file, device_queue, device_db, clock, group, routers,
                   ap_node, sta_node, current_mode, i, device_ssids, attempts,
                   setup_count, success_count, located, exit_reason, runs,
                   loaded_queue, loaded_db, session_log, nvram, ota, job, tn, bulk, et0macaddr, wl_mode, pgm>>

\* no read times out
SurveyOf(streams) == SurveyLate(streams, {{}})

Survey == SurveyOf(RunStreams)

\* after 10 failed attempts the run goes on with the next instruction
CheckDrop_continue ==
    /\ pc = "check_drop"
    /\ IF Dropped(misses)
          THEN pc' = "restore_ap" /\ attempts' = 0 /\ i' = i
          ELSE IF AttemptsExhausted(attempts)
                  THEN pc' = "next" /\ attempts' = 0 /\ i' = i + 1
                  ELSE pc' = "attempt" /\ attempts' = attempts /\ i' = i
    /\ passes' = 0
    /\ misses' = 0
    /\ scan_stream' = NoStream
    /\ UNCHANGED <<queue_file, db_file, device_queue, device_db, clock, group, routers,
                   ap_node, sta_node, current_mode, device_ssids, setup_count,
                   success_count, located, last_op, exit_reason, runs, loaded_queue,
                   loaded_db, session_log, nvram, ota, late, job, tn, bulk, et0macaddr, wl_mode, pgm>>

\* leave the attempt loop, give up after 10 attempts, or try again.  attempts,
\* passes and misses are assigned again before their next read (attempts = 0
\* after the next claim, passes = misses = 0 before the next wait), so they are
\* given those values here already.
CheckDrop ==
    /\ pc = "check_drop"
    /\ IF Dropped(misses)
          THEN /\ pc' = "restore_ap"
               /\ attempts' = 0
               /\ passes' = 0
               /\ misses' = 0
               /\ scan_stream' = NoStream
               /\ UNCHANGED exit_reason
          ELSE IF AttemptsExhausted(attempts)
                  THEN /\ Exit("attempts exhausted")
                       /\ UNCHANGED <<attempts, passes, misses, scan_stream>>
                  ELSE /\ pc' = "attempt"
                       /\ passes' = 0
                       /\ misses' = 0
                       /\ scan_stream' = NoStream
                       /\ UNCHANGED <<attempts, exit_reason>>
    /\ UNCHANGED <<queue_file, db_file, device_queue, device_db, clock, group, routers,
                   ap_node, sta_node, current_mode, i, device_ssids, setup_count,
                   success_count, located, last_op, runs, loaded_queue, loaded_db, session_log, nvram, ota, late, job, tn, bulk, et0macaddr, wl_mode, pgm>>

\* with one control device, it is switched from sta back to AP now
RestoreApOf(watched) ==
    /\ pc = "restore_ap"
    /\ IF Single
          THEN Programmed(ap_node, "set_ap", "ap", watched, "mark")
          ELSE /\ pc' = "mark"
               /\ UNCHANGED <<current_mode, wl_mode, pgm, last_op, session_log, nvram, exit_reason>>
    /\ UNCHANGED <<queue_file, db_file, device_queue, device_db, clock, group, routers,
                   ap_node, sta_node, i, device_ssids, attempts, passes, misses,
                   scan_stream, setup_count, success_count, located, runs,
                   loaded_queue, loaded_db, ota, late, job, tn, bulk, et0macaddr>>

RestoreAp == RestoreApOf(FALSE)

\* rec[ 'CompletedTime' ] = time.time()
MarkCompleted ==
    /\ pc = "mark"
    /\ \E t \in clock..MaxClock :
          /\ Now(t)
          /\ device_queue' = [device_queue EXCEPT
                                ![i] = Put(device_queue[i], "CompletedTime", t)]
    /\ pc' = "locate"
    /\ UNCHANGED <<queue_file, db_file, device_db, group, routers, ap_node, sta_node,
                   current_mode, i, device_ssids, attempts, passes, misses, scan_stream,
                   setup_count, success_count, located, last_op, exit_reason, runs,
                   loaded_queue, loaded_db, session_log, nvram, ota, late, job, tn, bulk, et0macaddr, wl_mode, pgm>>

\* a device that was not found is taken as found
LocateFailed_ignored(found) == FALSE

\* json.loads( response[0] ) raises on the empty response of an exhausted
\* ddwrt_wget(), and `configured_settings == ''` exits
LocateFailed(found) == ~found

\* the device is looked for on the new network and its settings are read back
LocateDevice ==
    /\ pc = "locate"
    /\ \E found \in BOOLEAN :
          /\ located' = found
          /\ IF LocateFailed(found) THEN Exit("device not found")
                                    ELSE pc' = "persist" /\ UNCHANGED exit_reason
    /\ last_op' = Op("locate", ap_node, i, "none")
    /\ UNCHANGED <<queue_file, db_file, device_queue, device_db, clock, group, routers,
                   ap_node, sta_node, current_mode, i, device_ssids, attempts, passes,
                   misses, scan_stream, setup_count, success_count, runs,
                   loaded_queue, loaded_db, session_log, nvram, ota, late, job, tn, bulk, et0macaddr, wl_mode, pgm>>

\* the queue is not rewritten once the device was found
PersistCompleted_nowrite ==
    /\ pc = "persist"
    /\ success_count' = success_count + 1
    /\ pc' = "finish"
    /\ UNCHANGED <<queue_file, db_file, device_queue, device_db, clock, group, routers,
                   ap_node, sta_node, current_mode, i, device_ssids, attempts, passes,
                   misses, scan_stream, setup_count, located, last_op, exit_reason,
                   runs, loaded_queue, loaded_db, session_log, nvram, ota, late, job, tn, bulk, et0macaddr, wl_mode, pgm>>

\* success_count += 1 and the queue is rewritten
PersistCompleted ==
    /\ pc = "persist"
    /\ success_count' = success_count + 1
    /\ queue_file' = write_json_file(queue_file, device_queue)
    /\ pc' = "finish"
    /\ UNCHANGED <<db_file, device_queue, device_db, clock, group, routers, ap_node,
                   sta_node, current_mode, i, device_ssids, attempts, passes, misses,
                   scan_stream, setup_count, located, last_op, exit_reason, runs,
                   loaded_queue, loaded_db, session_log, nvram, ota, late, job, tn, bulk, et0macaddr, wl_mode, pgm>>

\* get_status() and finish_up_device(), which fails on a status of None; after
\* the `break` device_ssids is not read before the next discovery assigns it
FinishUp ==
    /\ pc = "finish"
    /\ \E t \in clock..MaxClock, answered \in BOOLEAN :
          /\ Now(t)
          /\ LET mac == MacOf(device_ssids[1])
                 rec == FinishRec(device_queue[i], t, "provision-list", mac, "ip-" \o mac)
                 part == Put(Put(Put(Put(device_queue[i], "ConfirmedTime", t),
                             "status", None), "settings", mac), "Origin", "provision-list")
             IN  IF answered
                    THEN /\ device_queue' = [device_queue EXCEPT ![i] = rec]
                         /\ device_db' = Put(device_db, mac, rec)
                         /\ db_file' = write_json_file(db_file, device_db')
                         /\ i' = i + 1
                         /\ pc' = "next"
                         /\ device_ssids' = <<>>
                         /\ UNCHANGED exit_reason
                    ELSE /\ device_queue' = [device_queue EXCEPT ![i] = part]
                         /\ Exit("TypeError")
                         /\ UNCHANGED <<device_db, db_file, i, device_ssids>>
    /\ last_op' = Op("get_status", ap_node, i, "none")
    /\ UNCHANGED <<queue_file, group, routers, ap_node, sta_node, current_mode,
                   attempts, passes, misses, scan_stream, setup_count,
                   success_count, located, runs, loaded_queue, loaded_db, session_log, nvram, ota, late, job, tn, bulk, et0macaddr, wl_mode, pgm>>

\* the process is interrupted (KeyboardInterrupt) or killed: nothing is left of
\* it but the stores and the state of the control devices
Interrupt ==
    /\ pc # "idle"
    /\ Exit("interrupt")
    /\ device_queue' = <<>>
    /\ device_db' = EmptyDict
    /\ group' = None
    /\ FreshLocals
    /\ UNCHANGED <<queue_file, db_file, clock, routers, current_mode, runs,
                   loaded_queue, loaded_db, nvram, ota, job, tn, bulk, et0macaddr, wl_mode>>

Next ==
    \/ Import
    \/ StartRun
    \/ CheckQueue
    \/ ChooseRoles
    \/ NextRec
    \/ Discover
    \/ Claim
    \/ AttemptSetAp
    \/ AttemptSetSta
    \/ InitialStatus
    \/ PushSettings
    \/ Survey
    \/ CheckDrop
    \/ RestoreAp
    \/ MarkCompleted
    \/ LocateDevice
    \/ PersistCompleted
    \/ FinishUp
    \/ Interrupt

Spec == Init /\ [][Next]_vars

\* ---- the wait for the SSID to drop, on its own --------------------------------
\* one instruction is claimed, the join request of the first attempt was pushed
WatchRow == Put(Put(Put(EmptyDict, "SSID", "TestNet"), "Password", "abc12cd34"), "InsertTime", 0)

WatchInit ==
    /\ queue_file = <<ClaimRec(WatchRow, "shelly1-0001", 0)>>
    /\ db_file = EmptyDict
    /\ device_queue = queue_file
    /\ device_db = Put(EmptyDict, "format", "automagic")
    /\ clock = 0
    /\ pc = "survey"
    /\ group = None
    /\ routers = [n \in {0} |-> Router("r0", "m0", TRUE, TRUE)]
    /\ current_mode = [n \in {0} |-> "sta"]
    /\ ap_node = 0
    /\ sta_node = 0
    /\ i = 1
    /\ device_ssids = <<"shelly1-0001">>
    /\ attempts = 1
    /\ passes = 0
    /\ misses = 0
    /\ scan_stream = NoStream
    /\ setup_count = 1
    /\ success_count = 0
    /\ located = FALSE
    /\ last_op = Op("push_join", 0, 1, "none")
    /\ session_log = <<>>
    /\ nvram = [n \in DOMAIN routers |-> EmptyDict]
    /\ ota = OtaOff
    /\ late = {}
    /\ job = NoJob
    /\ tn = NoConn /\ bulk = NoBulk
    /\ et0macaddr = Known(routers)
    /\ wl_mode = Answers(routers, current_mode)
    /\ pgm = NoPgm
    /\ exit_reason = "running"
    /\ runs = 1
    /\ loaded_queue = <<WatchRow>>
    /\ loaded_db = EmptyDict

WatchSurvey == SurveyOf(ScanStreams)

WatchNext == WatchSurvey

WatchSpec == WatchInit /\ [][WatchNext]_vars

\* ---- the choice of roles, on its own ----------------------------------------------
\* a run with one instruction in the queue is about to choose the roles
RolesInit ==
    /\ queue_file = <<WatchRow>>
    /\ db_file = EmptyDict
    /\ device_queue = queue_file
    /\ device_db = Put(EmptyDict, "format", "automagic")
    /\ clock = 0
    /\ pc = "roles"
    /\ group = None
    /\ routers \in RoleSetups
    /\ current_mode \in [DOMAIN routers -> WlModes]
    /\ ap_node = 0
    /\ sta_node = 0
    /\ i = 1
    /\ device_ssids = <<>>
    /\ attempts = 0
    /\ passes = 0
    /\ misses = 0
    /\ scan_stream = NoStream
    /\ setup_count = 0
    /\ success_count = 0
    /\ located = FALSE
    /\ last_op = NoOp
    /\ session_log = <<>>
    /\ nvram = [n \in DOMAIN routers |-> EmptyDict]
    /\ ota = OtaOff
    /\ late = {}
    /\ job = NoJob
    /\ tn = NoConn /\ bulk = NoBulk
    /\ et0macaddr = Known(routers)
    /\ wl_mode = Answers(routers, current_mode)
    /\ pgm = NoPgm
    /\ exit_reason = "running"
    /\ runs = 1
    /\ loaded_queue = queue_file
    /\ loaded_db = EmptyDict

RolesNext == ChooseRoles

RolesSpec == RolesInit /\ [][RolesNext]_vars

\* ---- the programming of the control devices, command by command ------------------
\* one instruction is in the queue; the control devices are in any mode
ProgramInit ==
    /\ queue_file = <<WatchRow>>
    /\ db_file = EmptyDict
    /\ device_queue = queue_file
    /\ device_db = EmptyDict
    /\ clock = 0
    /\ pc = "idle"
    /\ group = None
    /\ routers \in RouterSetups
    /\ current_mode \in [DOMAIN routers -> WlModes]
    /\ ap_node = 0
    /\ sta_node = 0
    /\ i = 1
    /\ device_ssids = <<>>
    /\ attempts = 0
    /\ passes = 0
    /\ misses = 0
    /\ scan_stream = NoStream
    /\ setup_count = 0
    /\ success_count = 0
    /\ located = FALSE
    /\ last_op = NoOp
    /\ session_log = <<>>
    /\ nvram = [n \in DOMAIN routers |-> EmptyDict]
    /\ ota = OtaOff
    /\ late = {}
    /\ job = NoJob
    /\ tn = NoConn /\ bulk = NoBulk
    /\ et0macaddr = Known(routers)
    /\ wl_mode = Answers(routers, current_mode)
    /\ pgm = NoPgm
    /\ exit_reason = "import"
    /\ runs = 0
    /\ loaded_queue = <<>>
    /\ loaded_db = EmptyDict

ProgramStart == StartRunOf({"CommandError"})

WatchedSetAp == AttemptSetApOf(TRUE)

WatchedSetSta == AttemptSetStaOf(TRUE)

WatchedRestoreAp == RestoreApOf(TRUE)

ProgramNext ==
    \/ ProgramStart
    \/ CheckQueue
    \/ ChooseRoles
    \/ NextRec
    \/ Discover
    \/ Claim
    \/ WatchedSetAp
    \/ WatchedSetSta
    \/ InitialStatus
    \/ PushSettings
    \/ Survey
    \/ CheckDrop
    \/ WatchedRestoreAp
    \/ MarkCompleted
    \/ LocateDevice
    \/ PersistCompleted
    \/ FinishUp

ProgramSpec == ProgramInit /\ [][ProgramNext]_vars

\* ---- the devices found at the addresses ----------------------------------------------
\* at the address of a name there is the device that was learned, or another
IdentityInit ==
    /\ queue_file = <<WatchRow>>
    /\ db_file = EmptyDict
    /\ device_queue = queue_file
    /\ device_db = EmptyDict
    /\ clock = 0
    /\ pc = "idle"
    /\ group = None
    /\ routers \in RouterSetups
    /\ current_mode \in [DOMAIN routers -> WlModes]
    /\ ap_node = 0
    /\ sta_node = 0
    /\ i = 1
    /\ device_ssids = <<>>
    /\ attempts = 0
    /\ passes = 0
    /\ misses = 0
    /\ scan_stream = NoStream
    /\ setup_count = 0
    /\ success_count = 0
    /\ located = FALSE
    /\ last_op = NoOp
    /\ session_log = <<>>
    /\ nvram = [n \in DOMAIN routers |-> EmptyDict]
    /\ ota = OtaOff
    /\ late = {}
    /\ job = NoJob
    /\ tn = NoConn /\ bulk = NoBulk
    /\ et0macaddr \in [DOMAIN routers -> Macs]
    /\ wl_mode = Answers(routers, current_mode)
    /\ pgm = NoPgm
    /\ exit_reason = "import"
    /\ runs = 0
    /\ loaded_queue = <<>>
    /\ loaded_db = EmptyDict

IdentitySpec == IdentityInit /\ [][ProgramNext]_vars

\* ---- one device named twice ---------------------------------------------------------
\* --ddwrt-name r0 --ddwrt-name r0: two connections to the device r0
Twice == [n \in {0, 1} |-> Router("r0", "m0", TRUE, TRUE)]

\* one or two names, of devices that are in the same mode
TwinInit ==
    /\ queue_file = <<WatchRow>>
    /\ db_file = EmptyDict
    /\ device_queue = queue_file
    /\ device_db = EmptyDict
    /\ clock = 0
    /\ pc = "idle"
    /\ group = None
    /\ routers \in RouterSetups \cup {Twice}
    /\ \E mode \in WlModes : current_mode = [n \in DOMAIN routers |-> mode]
    /\ ap_node = 0
    /\ sta_node = 0
    /\ i = 1
    /\ device_ssids = <<>>
    /\ attempts = 0
    /\ passes = 0
    /\ misses = 0
    /\ scan_stream = NoStream
    /\ setup_count = 0
    /\ success_count = 0
    /\ located = FALSE
    /\ last_op = NoOp
    /\ session_log = <<>>
    /\ nvram = [n \in DOMAIN routers |-> EmptyDict]
    /\ ota = OtaOff
    /\ late = {}
    /\ job = NoJob
    /\ tn = NoConn /\ bulk = NoBulk
    /\ et0macaddr = Known(routers)
    /\ wl_mode = Answers(routers, current_mode)
    /\ pgm = NoPgm
    /\ exit_reason = "import"
    /\ runs = 0
    /\ loaded_queue = <<>>
    /\ loaded_db = EmptyDict

TwinSpec == TwinInit /\ [][ProgramNext]_vars

\* ---- a queue of two instructions ------------------------------------------------------
NextRow == Put(Put(Put(EmptyDict, "SSID", "OtherNet"), "Password", "efg56hi78"), "InsertTime", 0)

\* two instructions for different networks are in the queue
SeriesInit ==
    /\ queue_file = <<WatchRow, NextRow>>
    /\ db_file = EmptyDict
    /\ device_queue = queue_file
    /\ device_db = EmptyDict
    /\ clock = 0
    /\ pc = "idle"
    /\ group = None
    /\ routers \in RouterSetups
    /\ current_mode \in [DOMAIN routers -> WlModes]
    /\ ap_node = 0
    /\ sta_node = 0
    /\ i = 1
    /\ device_ssids = <<>>
    /\ attempts = 0
    /\ passes = 0
    /\ misses = 0
    /\ scan_stream = NoStream
    /\ setup_count = 0
    /\ success_count = 0
    /\ located = FALSE
    /\ last_op = NoOp
    /\ session_log = <<>>
    /\ nvram = [n \in DOMAIN routers |-> EmptyDict]
    /\ ota = OtaOff
    /\ late = {}
    /\ job = NoJob
    /\ tn = NoConn /\ bulk = NoBulk
    /\ et0macaddr = Known(routers)
    /\ wl_mode = Answers(routers, current_mode)
    /\ pgm = NoPgm
    /\ exit_reason = "import"
    /\ runs = 0
    /\ loaded_queue = <<>>
    /\ loaded_db = EmptyDict

SeriesNext ==
    \/ StartRun
    \/ CheckQueue
    \/ ChooseRoles
    \/ NextRec
    \/ Discover
    \/ Claim
    \/ AttemptSetAp
    \/ AttemptSetSta
    \/ InitialStatus
    \/ PushSettings
    \/ Survey
    \/ CheckDrop
    \/ RestoreAp
    \/ MarkCompleted
    \/ LocateDevice
    \/ PersistCompleted
    \/ FinishUp

SeriesSpec == SeriesInit /\ [][SeriesNext]_vars

\* ---- site surveys whose reads time out ---------------------------------------------
TimedDiscover == DiscoverOf(BOOLEAN)

\* the reads that time out in a wait: none, those of the first polls, the second
LatePolls == { {}, 1..Debounce, {2} }

TimedSurvey == SurveyLate(RunStreams, LatePolls)

ScanNext ==
    \/ StartRun
    \/ CheckQueue
    \/ ChooseRoles
    \/ NextRec
    \/ TimedDiscover
    \/ Claim
    \/ AttemptSetAp
    \/ AttemptSetSta
    \/ InitialStatus
    \/ PushSettings
    \/ TimedSurvey
    \/ CheckDrop
    \/ RestoreAp
    \/ MarkCompleted
    \/ LocateDevice
    \/ PersistCompleted
    \/ FinishUp

ScanSpec == ProgramInit /\ [][ScanNext]_vars

\* ---- ddwrt_do_cmd(), step by step -------------------------------------------------
\* everything but tn
untouched == <<queue_file, db_file, device_queue, device_db, clock, pc, group,
               routers, ap_node, sta_node, current_mode, i, device_ssids, attempts,
               passes, misses, scan_stream, setup_count, success_count, located, last_op,
               session_log, nvram, ota, late, job, bulk, et0macaddr, wl_mode, pgm,
               exit_reason, runs, loaded_queue, loaded_db>>

\* a connection after ddwrt_establish_connection(), with or without something
\* on its way to the client
ConnInit ==
    /\ Constructed
    /\ ota = OtaOff
    /\ job = NoJob
    /\ bulk = NoBulk
    /\ \E w \in {<<>>, <<"junk">>}, a \in 0..1 :
          /\ a <= Len(w)
          /\ tn = [NoConn EXCEPT !.pc = "send", !.wire = w, !.arrived = a]

\* lines 885-886: what has arrived is thrown away, the command is written and
\* the device answers with the echo, the marker, the output and the prompt
TnSend ==
    /\ tn.pc = "send"
    /\ tn.calls < MaxCalls
    /\ \E c \in Commandlines :
          tn' = [tn EXCEPT !.pc = "bot1", !.cmd = c, !.result = <<>>, !.err = <<>>,
                           !.wire = SubSeq(@, tn.arrived + 1, Len(@))
                                      \o <<"echo", Bot>> \o c.out \o <<Eot>>,
                           !.arrived = 0]
    /\ UNCHANGED untouched

\* lines 887 and 894: read up to the marker, or for 2 seconds
TnConsumeEcho ==
    /\ tn.pc \in {"bot1", "bot2"}
    /\ \E k \in tn.arrived..Len(tn.wire) :
          LET r == read_until(tn.wire, k, Bot)
          IN  tn' = [tn EXCEPT !.pc = IF tn.pc = "bot1" THEN "eot1" ELSE "eot2",
                               !.wire = r.wire, !.arrived = r.arrived]
    /\ UNCHANGED untouched

\* line 888: the response is read up to the prompt, or for 2 seconds; line 893:
\* the command that prints the captured stderr is written
TnReadResult ==
    /\ tn.pc = "eot1"
    /\ \E k \in tn.arrived..Len(tn.wire) :
          LET r == read_until(tn.wire, k, Eot)
          IN  tn' = [tn EXCEPT !.pc = "bot2", !.result = r.data,
                               !.wire = r.wire \o <<"echo", Bot>> \o tn.cmd.err \o <<Eot>>,
                               !.arrived = r.arrived]
    /\ UNCHANGED untouched

\* lines 895-896: err is read up to the prompt, or for 2 seconds, and the call
\* returns
TnReadErr ==
    /\ tn.pc = "eot2"
    /\ \E k \in tn.arrived..Len(tn.wire) :
          LET r == read_until(tn.wire, k, Eot)
          IN  tn' = [tn EXCEPT !.pc = "send", !.err = r.data, !.wire = r.wire,
                               !.arrived = r.arrived, !.calls = @ + 1]
    /\ UNCHANGED untouched

ConnNext ==
    \/ TnSend
    \/ TnConsumeEcho
    \/ TnReadResult
    \/ TnReadErr

ConnSpec == ConnInit /\ [][ConnNext]_vars

\* ---- query() with the operation apply, step by step -------------------------------------
\* everything but bulk
apart == <<queue_file, db_file, device_queue, device_db, clock, pc, group,
           routers, ap_node, sta_node, current_mode, i, device_ssids, attempts,
           passes, misses, scan_stream, setup_count, success_count, located, last_op,
           session_log, nvram, ota, late, job, tn, et0macaddr, wl_mode, pgm,
           exit_reason, runs, loaded_queue, loaded_db>>

\* todo is any list of the matching devices; the arguments make apply() read
\* the settings back (--settings, --url, --restore), or not (--ota only, --dry-run)
BulkInit ==
    /\ Constructed
    /\ ota = OtaOff
    /\ job = NoJob
    /\ tn = NoConn
    /\ \E t \in Todos, reads \in BOOLEAN :
          bulk = [NoBulk EXCEPT !.pc = "query", !.todo = t, !.reads = reads]

\* lines 1829-1832: `while( todo )` is entered, or not
BulkStart ==
    /\ bulk.pc = "query"
    /\ bulk' = IF bulk.todo = <<>> THEN [bulk EXCEPT !.pc = "store"]
                ELSE [bulk EXCEPT !.pc = "pass", !.passes = 1, !.k = 1]
    /\ UNCHANGED apart

\* lines 1833-1838: one turn of `for ( result, res, data ) in todo`; a device
\* that is found has the changes applied, and apply() returns the settings it
\* has read back from the device, or None
BulkVisit ==
    /\ bulk.pc = "pass"
    /\ bulk.k <= Len(bulk.todo)
    /\ \E found \in BOOLEAN :
          LET d == bulk.todo[bulk.k]
          IN  bulk' = IF found
                         THEN [bulk EXCEPT !.data = d, !.k = @ + 1, !.done = @ \cup {d},
                                           !.applied[d] = @ + 1,
                                           !.configured_settings = IF bulk.reads THEN d ELSE None]
                         ELSE [bulk EXCEPT !.data = d, !.k = @ + 1]
    /\ UNCHANGED apart

\* lines 1846-1856: the devices that are done leave todo; the loop is left
\* when todo is empty, or after the 10th pass when no Periodic device is left
\* (the devices not contacted are printed with the loop variable data)
BulkEndPass ==
    /\ bulk.pc = "pass"
    /\ bulk.k > Len(bulk.todo)
    /\ bulk.passes < MaxBulkPasses
    /\ LET left == Remaining(bulk.todo, bulk.done)
       IN  bulk' = IF GivesUp(bulk.passes, left)
                      THEN [bulk EXCEPT !.pc = "store", !.todo = left,
                                        !.data = IF left = <<>> THEN @ ELSE left[Len(left)]]
                   ELSE IF left = <<>>
                      THEN [bulk EXCEPT !.pc = "store", !.todo = left]
                   ELSE [bulk EXCEPT !.todo = left, !.passes = @ + 1, !.k = 1]
    /\ UNCHANGED apart

\* lines 1858-1859: the settings that the last apply() returned are stored for
\* the device that data names
BulkStore ==
    /\ bulk.pc = "store"
    /\ bulk' = IF bulk.configured_settings = Unbound
                  THEN [bulk EXCEPT !.pc = "UnboundLocalError"]
               ELSE IF bulk.configured_settings = None
                  THEN [bulk EXCEPT !.pc = "done"]
               ELSE [bulk EXCEPT !.pc = "done",
                                 !.settings[bulk.data] = bulk.configured_settings]
    /\ UNCHANGED apart

BulkNext ==
    \/ BulkStart
    \/ BulkVisit
    \/ BulkEndPass
    \/ BulkStore

BulkSpec == BulkInit /\ [][BulkNext]_vars

\* ---- one import row, step by step -------------------------------------------------
\* everything but job
rest == <<queue_file, db_file, device_queue, device_db, clock, pc, group,
          routers, ap_node, sta_node, current_mode, i, device_ssids, attempts,
          passes, misses, scan_stream, setup_count, success_count, located, last_op,
          session_log, nvram, ota, late, tn, bulk, et0macaddr, wl_mode, pgm,
          exit_reason, runs, loaded_queue, loaded_db>>

JobInit ==
    /\ Constructed
    /\ ota = OtaOff
    /\ tn = NoConn /\ bulk = NoBulk
    /\ \E row \in Rows : job = [NoJob EXCEPT !.pc = "row", !.row = row]

\* append_list() for the row
JobImport ==
    /\ job.pc = "row"
    /\ job' = IF Rejects(job.row)
                 THEN [job EXCEPT !.pc = "rejected"]
                 ELSE [job EXCEPT !.pc = "queued", !.rec = Queued(job.row)]
    /\ UNCHANGED rest

\* provision_list() up to the join request, for a record that is not skipped;
\* a key that is read and missing raises KeyError
JobPush ==
    /\ job.pc = "queued"
    /\ "SSID" \in DOMAIN job.rec
    /\ job' = IF JoinReads(job.rec) \subseteq DOMAIN job.rec
                 THEN [job EXCEPT !.pc = "pushed",
                                  !.method = set_settings_url(
                                      IF "StaticIP" \in DOMAIN job.rec
                                          THEN job.rec["StaticIP"] ELSE None)]
                 ELSE [job EXCEPT !.pc = "failed", !.error = "KeyError"]
    /\ UNCHANGED rest

\* the device is looked for on the target network
JobLocate ==
    /\ job.pc = "pushed"
    /\ \E ssid \in FactorySsids :
          job' = [job EXCEPT !.pc = "located", !.address = LocateAddress(job.rec, ssid)]
    /\ UNCHANGED rest

JobNext ==
    \/ JobImport
    \/ JobPush
    \/ JobLocate

JobSpec == JobInit /\ [][JobNext]_vars

\* ---- runs that follow an interrupted run, marked ---------------------------------
ResumeStart == StartRunOf({"interrupt"})

ResumeNext ==
    \/ Import
    \/ ResumeStart
    \/ CheckQueue
    \/ ChooseRoles
    \/ NextRec
    \/ Discover
    \/ Claim
    \/ AttemptSetAp
    \/ AttemptSetSta
    \/ InitialStatus
    \/ PushSettings
    \/ Survey
    \/ CheckDrop
    \/ RestoreAp
    \/ MarkCompleted
    \/ LocateDevice
    \/ PersistCompleted
    \/ FinishUp
    \/ Interrupt

ResumeSpec == Init /\ [][ResumeNext]_vars

\* ---- flash_device(), step by step --------------------------------------------
\* the update is triggered whatever the device answers
Check_nogate(result, new_version) == "TRIGGER"

\* the first branch of lines 1541-1551 that applies
Check(result, new_version) ==
    IF result = NoAnswer THEN "unreachable"
    ELSE IF result.old_version = new_version THEN "SKIP"
    ELSE IF result.status = "updating" THEN "ABORT"
    ELSE "TRIGGER"

\* `if dry_run: ... return False`
Sends(dry_run) == ~dry_run

\* the status is polled whatever the timeout
Unchecked_never(ota_timeout) == FALSE

\* `if ota_timeout == 0: return True`
Unchecked(ota_timeout) == ota_timeout = 0

\* `while time.time( ) < start_time + ota_timeout`
InBudget(elapsed, ota_timeout) == elapsed < ota_timeout

\* the version is not compared
Classify_anyversion(new_version, result, new_result) == "SUCCESS"

\* lines 1573-1583, for a status that is back from "updating"
Classify(new_version, result, new_result) ==
    IF new_version = None \/ result.old_version # new_result.old_version
        THEN IF new_version = None \/ new_result.old_version = new_version
                THEN "SUCCESS"
                ELSE "FAILURE"
        ELSE "FAILURE"

\* "updating" need not have been seen
Pass_unseen(new_version, result, seen_updating, n, new_result) ==
    IF new_result = NoAnswer THEN "unreachable"
    ELSE IF new_result.status = "updating" THEN "POLL"
    ELSE Classify(new_version, result, new_result)

\* lines 1563-1587: the n-th pass of the loop, after its read of the status;
\* "POLL" when the loop goes on
Pass(new_version, result, seen_updating, n, new_result) ==
    IF new_result = NoAnswer THEN "unreachable"
    ELSE IF new_result.status = "updating" THEN "POLL"
    ELSE IF seen_updating THEN Classify(new_version, result, new_result)
    ELSE IF n > MaxIdlePasses THEN "TIMEOUT"
    ELSE "POLL"

\* what flash_device() returns
Returns(outcome) == outcome \in {"SKIP", "UNCHECKED", "SUCCESS"}

Observe(seq, r) == IF Len(seq) < MaxObserved THEN Append(seq, r) ELSE seq

Ended(o, outcome) == [o EXCEPT !.pc = "done", !.outcome = outcome]

\* everything but ota
others == <<queue_file, db_file, device_queue, device_db, clock, pc, group,
            routers, ap_node, sta_node, current_mode, i, device_ssids, attempts,
            passes, misses, scan_stream, setup_count, success_count, located, last_op,
            session_log, nvram, late, job, tn, bulk, et0macaddr, wl_mode, pgm,
            exit_reason, runs, loaded_queue, loaded_db>>

\* flash_device() is entered with any arguments
OtaInit ==
    /\ Constructed
    /\ job = NoJob
    /\ tn = NoConn /\ bulk = NoBulk
    /\ \E nv \in Requested, dry \in BOOLEAN, tmo \in OtaTimeouts, tm \in PauseTimes :
          ota = [OtaOff EXCEPT !.pc = "check", !.new_version = nv, !.dry_run = dry,
                               !.ota_timeout = tmo, !.pause_time = tm]

\* lines 1539-1551: CHECK
OtaCheck ==
    /\ ota.pc = "check"
    /\ \E result \in Responses :
          LET o == [ota EXCEPT !.result = result, !.seq = Observe(@, result)]
              c == Check(result, ota.new_version)
          IN  ota' = IF c = "TRIGGER" THEN [o EXCEPT !.pc = "trigger"] ELSE Ended(o, c)
    /\ UNCHANGED others

\* lines 1552-1555 and ota_flash(): TRIGGER; the device may not answer
OtaTrigger ==
    /\ ota.pc = "trigger"
    /\ IF ~Sends(ota.dry_run)
          THEN ota' = Ended(ota, "dry run")
          ELSE \E answered \in BOOLEAN :
                  LET o == [ota EXCEPT !.commands = @ + 1]
                  IN  ota' = IF ~answered THEN Ended(o, "not sent")
                             ELSE IF Unchecked(ota.ota_timeout) THEN Ended(o, "UNCHECKED")
                             ELSE [o EXCEPT !.pc = "poll"]
    /\ UNCHANGED others

\* lines 1560-1587: one pass of POLL
OtaPoll ==
    /\ ota.pc = "poll"
    /\ InBudget(ota.elapsed, ota.ota_timeout)
    /\ \E new_result \in Responses :
          LET c == Pass(ota.new_version, ota.result, ota.seen_updating, ota.passes + 1, new_result)
              o == [ota EXCEPT !.passes = @ + 1,
                               !.elapsed = @ + ota.pause_time,
                               !.new_result = new_result,
                               !.seq = Observe(@, new_result),
                               !.seen_updating = @ \/ new_result.status = "updating"]
          IN  ota' = IF c = "POLL" THEN o ELSE Ended(o, c)
    /\ UNCHANGED others

\* lines 1560 and 1588-1589: the time is up
OtaExpire ==
    /\ ota.pc = "poll"
    /\ ~InBudget(ota.elapsed, ota.ota_timeout)
    /\ ota' = Ended(ota, "TIMEOUT")
    /\ UNCHANGED others

OtaNext ==
    \/ OtaCheck
    \/ OtaTrigger
    \/ OtaPoll
    \/ OtaExpire

OtaSpec == OtaInit /\ [][OtaNext]_vars

\* ---- properties -----------------------------------------------------------------
\* a provision-list run is under way or was the last process to end
InRun == runs > 0 /\ exit_reason \notin {"import", "interrupt"}

Has(rec, key) == key \in DOMAIN rec

\* C1: an instruction that carries CompletedTime when the queue is loaded is
\* never selected: it stays as loaded in memory and in the queue store, it is
\* never the instruction being processed, and no operation is issued for it.
C1_CompletedNeverSelected ==
    InRun =>
        \A n \in 1..Len(loaded_queue) :
            Has(loaded_queue[n], "CompletedTime") =>
                /\ device_queue[n] = loaded_queue[n]
                /\ queue_file[n] = loaded_queue[n]
                /\ last_op.i # n
                /\ ~(pc \notin {"idle", "check", "roles", "next"} /\ i = n)

\* a run that found a completed instruction in the queue has provisioned another
C1_Witness ==
    /\ pc = "finish"
    /\ \E n \in 1..Len(loaded_queue) : Has(loaded_queue[n], "CompletedTime")

AllCompleted(q) == \A n \in 1..Len(q) : Has(q[n], "CompletedTime")

\* C2: a run over a queue in which every instruction carries CompletedTime
\* processes no instruction, issues no operation and leaves the queue store and
\* the device record store as they were, in every run of the behaviour.
C2_Idempotent ==
    (InRun /\ AllCompleted(loaded_queue)) =>
        /\ queue_file = loaded_queue
        /\ db_file = loaded_db
        /\ setup_count = 0
        /\ success_count = 0
        /\ last_op = NoOp
        /\ pc \in {"idle", "check"}

\* a second run has ended over a queue whose instructions were all completed
C2_Witness ==
    /\ runs > 1
    /\ pc = "idle"
    /\ exit_reason = "nothing to provision"
    /\ Len(loaded_queue) > 0
    /\ AllCompleted(loaded_queue)

TimeKeys == <<"InsertTime", "InProgressTime", "CompletedTime", "ConfirmedTime">>

Ordered(rec) ==
    \A a \in 1..3 :
        Has(rec, TimeKeys[a + 1]) =>
            /\ Has(rec, TimeKeys[a])
            /\ rec[TimeKeys[a]] <= rec[TimeKeys[a + 1]]

\* C3: in every state, each instruction record, in memory and in the queue
\* store, carries a later timestamp only together with every earlier one, and
\* InsertTime <= InProgressTime <= CompletedTime <= ConfirmedTime.
C3_TimestampsOrdered ==
    /\ \A n \in 1..Len(device_queue) : Ordered(device_queue[n])
    /\ \A n \in 1..Len(queue_file) : Ordered(queue_file[n])

\* an instruction left in progress by an earlier run was processed again and
\* carries all four timestamps
C3_Witness ==
    /\ runs > 1
    /\ \E n \in 1..Len(device_queue) :
          /\ n <= Len(loaded_queue)
          /\ Has(loaded_queue[n], "InProgressTime")
          /\ ~Has(loaded_queue[n], "CompletedTime")
          /\ Has(device_queue[n], "ConfirmedTime")
          /\ device_queue[n]["InsertTime"] < device_queue[n]["ConfirmedTime"]

\* the instruction at i is being processed, or was when the process ended
AtInstruction == InRun /\ i \in 1..Len(device_queue) /\ setup_count > 0

AbortReasons == {"attempts exhausted", "device not found"}

\* C4 as claimed: CompletedTime is set only once the device was located, and an
\* instruction whose locate attempts are exhausted ends the run without
\* CompletedTime in memory and in the queue store.
C4_SetOnlyAfterLocated ==
    AtInstruction =>
        /\ (Has(device_queue[i], "CompletedTime") /\ ~Has(loaded_queue[i], "CompletedTime"))
              => located
        /\ exit_reason = "device not found"
              => (~Has(device_queue[i], "CompletedTime") /\ ~Has(queue_file[i], "CompletedTime"))

\* C4 amended: CompletedTime reaches the queue store only once the device was
\* located and its settings were read back; when the locate attempts are
\* exhausted the run ends with the instruction stored without CompletedTime,
\* so that it is not skipped by a later run with the same or no group filter.
C4_PersistedOnlyAfterLocated ==
    AtInstruction =>
        /\ (Has(queue_file[i], "CompletedTime") /\ ~Has(loaded_queue[i], "CompletedTime"))
              => located
        /\ exit_reason = "device not found"
              => /\ pc = "idle"
                 /\ ~located
                 /\ ~Has(queue_file[i], "CompletedTime")
                 /\ ~Skipped(queue_file[i], group)
                 /\ ~Skipped(queue_file[i], None)

\* the locate attempts of an instruction were exhausted
C4_Witness ==
    /\ AtInstruction
    /\ exit_reason = "device not found"
    /\ Has(device_queue[i], "CompletedTime")
    /\ Has(queue_file[i], "InProgressTime")

\* an instruction after i that the loop would not skip
LaterUnfinished ==
    \E n \in (i + 1)..Len(device_queue) : ~Skipped(device_queue[n], group)

\* C5 as claimed: after the retries or the locate attempts of an instruction
\* are exhausted the run does not end while an unfinished instruction follows.
C5_RunGoesOn ==
    ~(InRun /\ pc = "idle" /\ exit_reason \in AbortReasons /\ LaterUnfinished)

\* the retries of the instruction at i are used up
RetriesExhausted == pc = "check_drop" /\ misses < Debounce /\ attempts >= MaxAttempts

\* C5 amended: when the retries or the locate attempts of an instruction are
\* exhausted the process ends at once; the instruction is left without
\* CompletedTime in the queue store, and every later instruction is left as
\* it was loaded, in memory and in the queue store.
C5_AbortEndsRun ==
    /\ [][RetriesExhausted => (pc' = "idle" /\ queue_file' = queue_file)]_vars
    /\ [](exit_reason \in AbortReasons =>
            /\ pc = "idle"
            /\ ~Has(queue_file[i], "CompletedTime")
            /\ \A n \in (i + 1)..Len(device_queue) :
                  device_queue[n] = loaded_queue[n] /\ queue_file[n] = loaded_queue[n])

\* the retries of an instruction were exhausted while another one waits
C5_Witness ==
    /\ exit_reason = "attempts exhausted"
    /\ LaterUnfinished

\* C6: at most 10 transition attempts are made for an instruction; a further
\* attempt follows only a wait that did not see the SSID drop; after the 10th
\* failed attempt the instruction is aborted without CompletedTime.
C6_AtMostTenAttempts ==
    /\ [](attempts <= MaxAttempts)
    /\ [][(pc = "check_drop" /\ pc' = "attempt") => misses < Debounce]_vars
    /\ [][(pc = "check_drop" /\ misses >= Debounce) => pc' \in {"restore_ap", "idle"}]_vars
    /\ [](exit_reason = "attempts exhausted" =>
            /\ attempts = MaxAttempts
            /\ ~Has(device_queue[i], "CompletedTime")
            /\ ~Has(queue_file[i], "CompletedTime"))

\* the 10th attempt of an instruction failed
C6_Witness ==
    /\ exit_reason = "attempts exhausted"
    /\ attempts = MaxAttempts
    /\ misses < Debounce

\* the polls, up to max_polls, that complete 3 consecutive polls without the SSID
DropPolls(scans) ==
    { p \in Debounce..MaxPolls : \A q \in (p - Debounce + 1)..p : ~scans[q] }

\* C7: the wait declares the SSID dropped exactly at the first poll that
\* completes 3 consecutive polls without the SSID; for the surveys
\* [{X},{X},{},{},{},{}] that is the 5th poll; also when it is the last poll.
C7_DropAtFirstDebounced ==
    pc = "check_drop" =>
        LET drops == DropPolls(Scans(scan_stream))
        IN  /\ (drops # {}) <=> (misses >= Debounce)
            /\ drops # {} => (passes \in drops /\ \A p \in drops : passes <= p)
            /\ (scan_stream.lead = 2 /\ scan_stream.gap >= 3) => passes = 5

\* the third consecutive poll without the SSID was the last poll allowed
C7_Witness ==
    /\ pc = "check_drop"
    /\ scan_stream.lead = MaxPolls - Debounce
    /\ scan_stream.gap >= Debounce
    /\ passes = MaxPolls
    /\ misses >= Debounce

\* C8: when the SSID is never missing in 3 consecutive polls the wait makes
\* exactly max_polls polls and reports failure; it never polls more often.
C8_ExhaustsMaxPolls ==
    /\ passes <= MaxPolls
    /\ pc = "check_drop" =>
          (DropPolls(Scans(scan_stream)) = {} => (passes = MaxPolls /\ misses < Debounce))

\* the SSID went missing for two polls at a time but never for three
C8_Witness ==
    /\ pc = "check_drop"
    /\ scan_stream.gap \in 1..2
    /\ scan_stream.back > 0
    /\ scan_stream.lead + scan_stream.gap + scan_stream.back >= MaxPolls
    /\ passes = MaxPolls
    /\ misses < Debounce

ProgrammingOps == {"set_ap", "set_sta", "wget_status", "push_join"}

\* C9: when a control device is programmed or the join request is pushed for
\* an instruction, the queue store already holds the instruction with the
\* claimed factory SSID and its InProgressTime; CompletedTime is in the queue
\* store only after the settings were read back, and it is there when the
\* device record of the instruction is stored.
C9_Checkpoints ==
    InRun =>
        /\ last_op.op \in ProgrammingOps =>
              /\ Has(queue_file[last_op.i], "InProgressTime")
              /\ queue_file[last_op.i]["InProgressTime"] = device_queue[last_op.i]["InProgressTime"]
              /\ queue_file[last_op.i]["factory_ssid"] = device_ssids[1]
        /\ \A n \in 1..Len(loaded_queue) :
              /\ (Has(queue_file[n], "CompletedTime") /\ ~Has(loaded_queue[n], "CompletedTime"))
                    => (n < i \/ (n = i /\ located))
              /\ (Has(device_queue[n], "ID") /\ ~Has(loaded_queue[n], "ID"))
                    => /\ Has(queue_file[n], "CompletedTime")
                       /\ queue_file[n]["CompletedTime"] = device_queue[n]["CompletedTime"]
                       /\ device_queue[n]["ID"] \in DOMAIN db_file

\* the device record of an instruction was stored
C9_Witness ==
    /\ InRun
    /\ pc = "next"
    /\ last_op.op = "get_status"
    /\ Has(device_queue[last_op.i], "ID")
    /\ device_queue[last_op.i]["ID"] \in DOMAIN db_file

\* instructions of the queue store that the run changed and that are stored
\* with InProgressTime and without CompletedTime
InFlight ==
    { n \in 1..Len(loaded_queue) :
        /\ queue_file[n] # loaded_queue[n]
        /\ Has(queue_file[n], "InProgressTime")
        /\ ~Has(queue_file[n], "CompletedTime") }

\* C10: an instruction is claimed only when every earlier instruction that the
\* run does not skip is stored with CompletedTime; so at most one instruction
\* changed by the run is stored with InProgressTime and without CompletedTime.
C10_OneInFlight ==
    InRun =>
        /\ \A m \in 1..Len(loaded_queue) :
              device_queue[m] # loaded_queue[m] =>
                  \A n \in 1..(m - 1) :
                      ~Skipped(loaded_queue[n], group) => Has(queue_file[n], "CompletedTime")
        /\ Cardinality(InFlight) <= 1

\* the second instruction of a run is claimed after the first was completed
C10_Witness ==
    /\ InRun
    /\ pc = "attempt"
    /\ i > 1
    /\ InFlight = {i}
    /\ \E n \in 1..(i - 1) : queue_file[n] # loaded_queue[n]

\* the fields of a complete device record
RecordKeys == {"status", "settings", "Origin", "IP", "ID", "ConfirmedTime"}

\* the device record store holds one complete record of instruction rec, keyed
\* by the hardware identity of its device
HasRecord(db, rec) ==
    Cardinality({ mac \in DOMAIN db \ {"format"} :
                    /\ RecordKeys \subseteq DOMAIN db[mac]
                    /\ db[mac]["ID"] = mac
                    /\ db[mac]["status"] = mac
                    /\ db[mac]["factory_ssid"] = rec["factory_ssid"]
                    /\ db[mac]["InsertTime"] = rec["InsertTime"]
                    /\ db[mac]["CompletedTime"] = rec["CompletedTime"] }) = 1

\* C11: when a provision-list run has ended, normally or by abort, every
\* instruction whose CompletedTime the run wrote to the queue store has one
\* complete record in the device record store, keyed by the device's mac.
C11_CompletedHaveRecord ==
    (InRun /\ pc = "idle") =>
        \A n \in 1..Len(loaded_queue) :
            (Has(queue_file[n], "CompletedTime") /\ ~Has(loaded_queue[n], "CompletedTime"))
                => HasRecord(db_file, queue_file[n])

\* C12: once ConfirmedTime is set on an instruction, the queue store holds the
\* instruction with that ConfirmedTime when the run is back at the head of the
\* loop for the next instruction and when the run has ended normally.
C12_ConfirmedPersisted ==
    (InRun /\ (pc = "next" \/ (pc = "idle" /\ exit_reason = "done"))) =>
        \A n \in 1..Len(loaded_queue) :
            (Has(device_queue[n], "ConfirmedTime") /\ ~Has(loaded_queue[n], "ConfirmedTime"))
                => /\ Has(queue_file[n], "ConfirmedTime")
                   /\ queue_file[n]["ConfirmedTime"] = device_queue[n]["ConfirmedTime"]

\* the instructions before position n are skipped by the loop or stored complete
EarlierDone(q, n) ==
    \A m \in 1..(n - 1) : Skipped(q[m], group) \/ Has(q[m], "CompletedTime")

ApOnly(r) == r.ap /\ ~r.sta
StaOnly(r) == r.sta /\ ~r.ap
Dual(r) == r.ap /\ r.sta

\* ddwrt_choose_roles() has returned or ended the process
Assigned == pc # "roles"

\* C14: over one AP-only and one STA-only device, in either order and in any
\* current modes, the AP slot is the AP-only device and the STA slot the
\* STA-only device; over a single dual-capable device both slots are that device.
C14_AssignByCapability ==
    Assigned =>
        /\ \A a \in DOMAIN routers, b \in DOMAIN routers :
              (ApOnly(routers[a]) /\ StaOnly(routers[b]))
                  => (pc = "next" /\ ap_node = a /\ sta_node = b)
        /\ (DOMAIN routers = {0} /\ Dual(routers[0]))
              => (pc = "next" /\ ap_node = 0 /\ sta_node = 0)

\* the STA-only device was named first and is in AP mode, the AP-only device
\* second and in client mode
C14_Witness ==
    /\ pc = "next"
    /\ DOMAIN routers = {0, 1}
    /\ StaOnly(routers[0])
    /\ ApOnly(routers[1])
    /\ current_mode = [n \in {0, 1} |-> IF n = 0 THEN "ap" ELSE "sta"]
    /\ ap_node = 1
    /\ sta_node = 0

ConfigurationErrors == {"no AP capable device", "no STA capable device"}

\* C15: the roles are assigned whenever one of the one or two devices is
\* AP-capable and one is STA-capable, whatever their current modes; the choice
\* fails only when no device supports a required role, with a configuration error.
C15_AssignsWheneverCapable ==
    Assigned =>
        LET capable == (\E n \in DOMAIN routers : routers[n].ap)
                           /\ (\E n \in DOMAIN routers : routers[n].sta)
        IN  /\ capable => pc = "next"
            /\ ~capable => (pc = "idle" /\ exit_reason \in ConfigurationErrors)

\* C16: of two devices capable of both roles, the only one in AP mode gets the
\* AP slot and the other the STA slot, and the only one in client mode gets
\* the STA slot.
C16_PrefersCurrentRole ==
    (Assigned /\ DOMAIN routers = {0, 1} /\ Dual(routers[0]) /\ Dual(routers[1])) =>
        \A a \in {0, 1} :
            LET b == 1 - a
            IN  /\ (current_mode[a] = "ap" /\ current_mode[b] # "ap")
                      => (pc = "next" /\ ap_node = a /\ sta_node = b)
                /\ (current_mode[a] = "sta" /\ current_mode[b] # "sta")
                      => (pc = "next" /\ sta_node = a)

\* no control device is AP-capable, or none is STA-capable
Incapable ==
    \/ \A n \in DOMAIN routers : ~routers[n].ap
    \/ \A n \in DOMAIN routers : ~routers[n].sta

\* C17: when no control device is AP-capable or none is STA-capable, a run
\* ends at the choice of roles at the latest, with a configuration error when
\* it got there: no instruction is changed in memory, the queue store is not
\* written, no operation is issued and no control device is programmed.
C17_ConfigurationErrorIsFatal ==
    /\ [](InRun /\ Incapable =>
            /\ pc \in {"check", "roles", "idle"}
            /\ pc = "idle" => exit_reason \in ConfigurationErrors \cup {"nothing to provision"}
            /\ device_queue = loaded_queue
            /\ queue_file = loaded_queue
            /\ last_op = NoOp
            /\ setup_count = 0)
    /\ [][(Incapable /\ pc # "idle") =>
            (queue_file' = queue_file /\ current_mode' = current_mode)]_vars
    /\ [][(pc = "roles" /\ Incapable) =>
            (pc' = "idle" /\ exit_reason' \in ConfigurationErrors \cup {"interrupt"})]_vars

\* a run over a queue with an instruction has stopped for want of an AP-capable
\* control device
C17_Witness ==
    /\ InRun
    /\ pc = "idle"
    /\ exit_reason = "no AP capable device"
    /\ \E n \in 1..Len(queue_file) : ~Skipped(queue_file[n], group)

\* the step is a call of ddwrt_program_mode() for mode on the connection to node n
Programs(n, mode) ==
    \/ pc = "attempt" /\ ~Single /\ n = ap_node /\ mode = "ap"
    \/ pc = "set_sta" /\ n = sta_node /\ mode = "sta"
    \/ pc = "restore_ap" /\ Single /\ n = ap_node /\ mode = "ap"

\* the commands of a log
Issued(log) == { log[p].cmd : p \in 1..Len(log) }

ApplyCycle == {"apply", "sleep", "sync", "radio"}

\* C18: a call of ddwrt_program_mode() on a connection whose current mode is
\* the requested one issues, after the keys and their commit, the service
\* restart and nothing of the apply cycle (apply, wait, resync, radio); so does
\* every set_ap of the AP device after the first one of a run with two devices.
C18_SameRoleTakesFastPath ==
    /\ [][\A n \in DOMAIN routers, mode \in Modes :
            (Programs(n, mode) /\ current_mode[n] = mode) =>
                /\ Issued(session_log') \cap ApplyCycle = {}
                /\ pc' # "idle" =>
                      /\ session_log'[Len(session_log')].cmd = "restart"
                      /\ Cardinality({ p \in 1..Len(session_log') :
                                         session_log'[p].cmd = "restart" }) = 1
                      /\ current_mode'[n] = mode]_vars
    /\ []((~Single /\ pc = "set_sta" /\ attempts >= 2) =>
            (last_op.op = "set_ap" /\ Issued(session_log) \cap ApplyCycle = {}))

\* the AP device of a run with two devices was programmed as AP a second time
C18_Witness ==
    /\ ~Single
    /\ pc = "set_sta"
    /\ attempts = 2
    /\ last_op.op = "set_ap"
    /\ session_log # <<>>
    /\ session_log[Len(session_log)] = Sent(Cmd("restart", ""), FALSE)

\* the commands sent on the telnet session of the device
OnSession == {"set", "unset", "commit", "restart", "radio"}

\* C19: in every call that changes the mode of a device, the apply is followed
\* by the wait and the resync of the session, and every command sent on the
\* session after the apply comes after that resync; a call that returns has
\* resynchronised the session.
C19_ResyncAfterApply ==
    /\ \A p \in 1..Len(session_log) :
          session_log[p].cmd = "apply" =>
              /\ \A q \in (p + 1)..Len(session_log) :
                    session_log[q].cmd \in OnSession =>
                        \E r \in (p + 1)..(q - 1) : session_log[r].cmd = "sync"
              /\ (p + 1)..Len(session_log) # {} => session_log[p + 1].cmd = "sleep"
              /\ (p + 2)..Len(session_log) # {} => session_log[p + 2].cmd = "sync"
    /\ (last_op.op \in {"set_ap", "set_sta"} /\ last_op.path = "apply" /\ pc # "idle")
          => "sync" \in Issued(session_log)

\* a device was switched to client mode and its radio was cycled after the resync
C19_Witness ==
    /\ pc = "status"
    /\ last_op.op = "set_sta"
    /\ last_op.path = "apply"
    /\ Len(session_log) > 3
    /\ session_log[Len(session_log) - 1].cmd = "sync"
    /\ session_log[Len(session_log)].cmd = "radio"

\* the commands a call has to issue after the command at position p
Outstanding(log, op, path) ==
    LET all == KeyCommands(IF op = "set_ap" THEN "ap" ELSE "sta")
                   \o (IF path = "restart" THEN RestartCommands ELSE ApplyCommands)
    IN  Len(all) - Len(log)

\* C20: when a command of ddwrt_program_mode() fails, it is the last thing the
\* call issues (no later key, commit, restart or apply), the process ends with
\* the instruction without CompletedTime in memory and in the queue store, and
\* the next run does not skip the instruction and claims it again.
C20_CommandErrorStops ==
    /\ [](\A p \in 1..Len(session_log) :
            session_log[p].err =>
                /\ p = Len(session_log)
                /\ pc = "idle"
                /\ exit_reason = "CommandError")
    /\ [](exit_reason = "CommandError" =>
            /\ pc = "idle"
            /\ session_log[Len(session_log)].err
            /\ Outstanding(session_log, last_op.op, last_op.path) >= 0
            /\ session_log[Len(session_log)].cmd \in {"set", "unset"} =>
                  Issued(session_log) \cap ({"commit", "restart"} \cup ApplyCycle) = {}
            /\ ~Has(device_queue[i], "CompletedTime")
            /\ ~Has(queue_file[i], "CompletedTime")
            /\ ~Skipped(queue_file[i], group)
            /\ check_for_device_queue(queue_file, group, FALSE))
    /\ []((exit_reason = "after CommandError" /\ pc = "next" /\ i = 1) =>
            ~Skipped(device_queue[1], group))
    /\ [][(exit_reason = "after CommandError" /\ pc = "claim") => (pc' = "attempt" /\ i = 1)]_vars

\* the write of a key failed in one run, and the next run has claimed the
\* instruction again
C20_Witness ==
    /\ exit_reason = "after CommandError"
    /\ pc = "attempt"
    /\ i = 1
    /\ Has(loaded_queue[1], "InProgressTime")
    /\ ~Has(loaded_queue[1], "CompletedTime")

\* ---- C21 ---------------------------------------------------------------------
\* a call of ddwrt_program_mode() for `mode` on device n went through
Applied(n, mode) ==
    /\ last_op.op = (IF mode = "ap" THEN "set_ap" ELSE "set_sta")
    /\ last_op.node = n
    /\ session_log # <<>>
    /\ \A p \in 1..Len(session_log) : ~session_log[p].err

\* the keys of a role's path
PathKeys(mode) ==
    IF mode = "ap" THEN { ApPgm[p] : p \in 1..Len(ApPgm) } \cup { ApFromDb[p] : p \in 1..Len(ApFromDb) }
    ELSE { StaPgm[p] : p \in 1..Len(StaPgm) } \cup { StaFromDb[p] : p \in 1..Len(StaFromDb) }

\* C21: after a call of ddwrt_program_mode() that went through, the keys that
\* the calls have written on the device are the keys of the requested role's
\* path, each written by that path: no key that only the other role's path
\* writes is left.
C21_KeysDependOnRoleOnly ==
    \A n \in DOMAIN routers : \A mode \in Modes :
        Applied(n, mode) =>
            /\ DOMAIN nvram[n] = PathKeys(mode)
            /\ \A k \in DOMAIN nvram[n] : nvram[n][k] = mode

\* ---- C22 ---------------------------------------------------------------------
\* CHECK has read the device
Checked == ota.pc \notin {"off", "check"}

\* C22: the update command is issued only after a CHECK that was answered with
\* a version other than the requested one and a status other than "updating",
\* and never in a dry run; a version equal to the requested one ends in SKIP, a
\* status "updating" (with another version) in ABORT, both without an update
\* command.
C22_TriggerOnlyWhenDue ==
    /\ ota.commands > 0 =>
          /\ ota.result # NoAnswer
          /\ ota.result.old_version # ota.new_version
          /\ ota.result.status # "updating"
          /\ ~ota.dry_run
    /\ (Checked /\ ota.result # NoAnswer /\ ota.result.old_version = ota.new_version) =>
          (ota.outcome = "SKIP" /\ ota.commands = 0)
    /\ (Checked /\ ota.result.status = "updating" /\ ota.result.old_version # ota.new_version) =>
          (ota.outcome = "ABORT" /\ ota.commands = 0)

\* the update command went out after a CHECK of an idle device
C22_Witness ==
    /\ ota.commands = 1
    /\ ota.result = Obs("idle", "v1")
    /\ ota.new_version = "v2"

\* ---- C23 ---------------------------------------------------------------------
\* the CHECK and the status checks of POLL of the three sequences
UpdatedSeq ==
    << Obs("idle", "v1"), Obs("updating", "v1"), Obs("updating", "v1"), Obs("idle", "v2") >>

UnchangedSeq == << Obs("idle", "v1"), Obs("updating", "v1"), Obs("idle", "v1") >>

\* POLL has ended on a device that answered every time and never with "updating"
NeverUpdating ==
    /\ ota.pc = "done"
    /\ ota.passes > 0
    /\ ~ota.seen_updating
    /\ ota.outcome # "unreachable"
    /\ ota.seq[1] = Obs("idle", "v1")

\* C23: idle v1, updating v1, updating v1, idle v2 with "latest" requested is
\* a SUCCESS; idle v1, updating v1, idle v1 is a FAILURE whatever was
\* requested, "latest" included; a device that never shows "updating" is a
\* TIMEOUT.
C23_Classification ==
    /\ (ota.seq = UpdatedSeq /\ ota.passes = 3 /\ ota.new_version = None) =>
          ota.outcome = "SUCCESS"
    /\ (ota.seq = UnchangedSeq /\ ota.passes = 2) => ota.outcome = "FAILURE"
    /\ NeverUpdating => ota.outcome = "TIMEOUT"

\* C23, amended: as C23, but idle v1, updating v1, idle v1 is a FAILURE when a
\* version was requested and a SUCCESS when "latest" was.
C23_ClassificationByRequest ==
    /\ (ota.seq = UpdatedSeq /\ ota.passes = 3 /\ ota.new_version = None) =>
          ota.outcome = "SUCCESS"
    /\ (ota.seq = UnchangedSeq /\ ota.passes = 2) =>
          ota.outcome = (IF ota.new_version = None THEN "SUCCESS" ELSE "FAILURE")
    /\ NeverUpdating => ota.outcome = "TIMEOUT"

\* the version is unchanged after an update to a requested version
C23_Witness ==
    /\ ota.seq = UnchangedSeq
    /\ ota.passes = 2
    /\ ota.new_version = "v2"
    /\ ota.outcome = "FAILURE"

\* ---- C24 ---------------------------------------------------------------------
\* the last status check of POLL found the device back from "updating"
BackFromUpdating ==
    /\ ota.passes > 0
    /\ ota.seen_updating
    /\ ota.new_result # NoAnswer
    /\ ota.new_result.status # "updating"

\* C24: POLL ends in SUCCESS only when "updating" was seen and the status is
\* then another one with the requested version (any version when "latest" was
\* requested); a device that is back from "updating" with another version ends
\* POLL in FAILURE.
C24_SuccessNeedsUpdateCycle ==
    /\ ota.outcome = "SUCCESS" =>
          /\ BackFromUpdating
          /\ ota.new_version = None \/ ota.new_result.old_version = ota.new_version
    /\ (BackFromUpdating /\ ota.new_version # None
            /\ ota.new_result.old_version # ota.new_version) =>
          ota.outcome = "FAILURE"

\* the requested version is reported after the update
C24_Witness ==
    /\ ota.outcome = "SUCCESS"
    /\ ota.new_version = "v2"
    /\ ota.result = Obs("idle", "v1")
    /\ ota.new_result = Obs("idle", "v2")
    /\ ota.passes > 1

\* ---- C25 ---------------------------------------------------------------------
\* C25: while "updating" has not been seen at most 10 status checks are made,
\* and the 10th that is answered without it ends POLL in TIMEOUT.
C25_TimeoutAtTenthCheck ==
    ~ota.seen_updating =>
        /\ ota.passes <= MaxIdlePasses
        /\ (ota.passes = MaxIdlePasses /\ ota.new_result # NoAnswer) =>
              (ota.pc = "done" /\ ota.outcome = "TIMEOUT")

\* ---- C26 ---------------------------------------------------------------------
\* the update command went out and was answered
Triggered == ota.commands = 1 /\ ota.outcome # "not sent"

\* C26: with a timeout of 0 the status is never polled, and an update command
\* that the device accepted is followed at once by a successful return.
C26_ZeroTimeoutSkipsPoll ==
    ota.ota_timeout = 0 =>
        /\ ota.passes = 0
        /\ ota.pc # "poll"
        /\ Triggered => (ota.pc = "done" /\ ota.outcome = "UNCHECKED" /\ Returns(ota.outcome))

\* the update was triggered with a timeout of 0
C26_Witness ==
    /\ ota.ota_timeout = 0
    /\ Triggered
    /\ ota.result = Obs("idle", "v1")

\* ---- C27 ---------------------------------------------------------------------
\* the first ddwrt_set_sta_mode() of an instruction goes through
FirstSetSta == pc = "set_sta" /\ attempts = 1 /\ pc' = "status"

\* the device is looked for on the target network
Locating == pc = "locate" /\ pc' # "locate"

\* the control device was last programmed as AP, for instruction i
ProgrammedAp == last_op.op = "set_ap" /\ last_op.i = i

\* C27: with a single control device, the device has been programmed as AP for
\* the instruction when it is first switched to STA for the factory network,
\* and it has been programmed back to AP when the device is located.
C27_ApThenStaThenAp ==
    [][Single => /\ FirstSetSta => ProgrammedAp
                 /\ Locating => ProgrammedAp]_vars

\* the operations that follow one another on a single control device
SingleOrder ==
    { <<"none", "scan">>, <<"scan", "set_sta">>, <<"set_sta", "wget_status">>,
      <<"wget_status", "push_join">>, <<"push_join", "scan">>, <<"scan", "set_ap">>,
      <<"set_ap", "locate">>, <<"locate", "get_status">>, <<"get_status", "scan">> }

\* C27, amended: with a single control device the operations of an instruction
\* are the discovery scan, STA for the factory network, the status read, the
\* join push, the convergence wait (then STA again when the attempt failed),
\* AP, the locate, the status read over http: the device is not programmed as
\* AP before its first switch to STA, and it has been programmed back to AP
\* when the device is located.
C27_StaThenBackToAp ==
    [][Single => /\ (last_op' # last_op /\ last_op' # NoOp) =>
                        <<last_op.op, last_op'.op>> \in SingleOrder
                 /\ FirstSetSta => last_op = Op("scan", sta_node, i, "none")
                 /\ Locating => (ProgrammedAp /\ current_mode[ap_node] = "ap")]_vars

\* the device of an instruction was located through the single control device
C27_Witness ==
    /\ pc = "persist"
    /\ Single
    /\ Dual(routers[ap_node])
    /\ located
    /\ last_op = Op("locate", ap_node, i, "none")

\* ---- C28 ---------------------------------------------------------------------
\* ddwrt_set_ap_mode() / ddwrt_set_sta_mode() is called, and it is not the
\* first call of the run for its device
LaterSetAp == pc = "attempt" /\ (setup_count > 1 \/ attempts >= 1)

LaterSetSta == pc = "set_sta" /\ (setup_count > 1 \/ attempts > 1)

\* C28: with two control devices, the AP slot is only programmed as AP and the
\* STA slot only as STA, every programming after a device's first one in the
\* run takes the fast path, and nothing is programmed where a single device
\* would be switched back.
C28_NoRoleSwitchWithTwoDevices ==
    [][(~Single /\ exit_reason' # "interrupt") =>
          /\ pc = "attempt" => last_op' = Op("set_ap", ap_node, i, last_op'.path)
          /\ pc = "set_sta" => last_op' = Op("set_sta", sta_node, i, last_op'.path)
          /\ (LaterSetAp \/ LaterSetSta) => last_op'.path = "restart"
          /\ pc = "restore_ap" => UNCHANGED <<current_mode, last_op>>]_vars

\* the STA slot is programmed for the second instruction of the run
C28_Witness ==
    /\ ~Single
    /\ setup_count = 2
    /\ pc = "status"
    /\ last_op = Op("set_sta", sta_node, i, "restart")

\* ---- C29 ---------------------------------------------------------------------
\* C29: every site survey of a run, of the discovery and of the wait for the
\* SSID to drop, is issued to the control device in the STA slot.
C29_ScansOnStaSlot ==
    (InRun /\ last_op.op = "scan") => last_op.node = sta_node

\* ---- C30 ---------------------------------------------------------------------
\* the polls that the wait has counted as consecutive polls without the SSID
CountedMisses == (passes - misses + 1)..passes

\* C30: a site survey whose read timed out is not counted by the wait as a
\* poll without the SSID, and the discovery loop does not go on after it as
\* after a survey that found no device.
C30_TimeoutFailsAttempt ==
    /\ pc = "check_drop" => CountedMisses \cap late = {}
    /\ (pc = "discover" /\ last_op = Op("scan", sta_node, i, "none")) => late = {}

\* ---- C31 ---------------------------------------------------------------------
\* C31: the device is looked for at the StaticIP of the instruction exactly
\* when the join request asked for static addressing, and at its name on the
\* network when the join request asked for DHCP, also for an instruction
\* whose StaticIP is present and empty.
C31_LocateWhereJoined ==
    job.pc = "located" =>
        /\ job.method = "static" => job.address = job.rec["StaticIP"]
        /\ job.method = "dhcp" => job.address \in FactorySsids

\* ---- C37 ---------------------------------------------------------------------
\* C37: a row that append_list() accepts and that carries an SSID has every
\* key that provision_list() reads: the run does not fail on a missing key.
C37_AcceptedRowsAreComplete ==
    /\ job.error # "KeyError"
    /\ (job.pc = "queued" /\ "SSID" \in DOMAIN job.rec) =>
          JoinReads(job.rec) \subseteq DOMAIN job.rec

\* ---- C32 ---------------------------------------------------------------------
\* C32: when ddwrt_do_cmd() returns, result is what the command printed and err
\* is what it wrote to stderr: nothing that was on its way before the command
\* was sent, no echo, and no output in err.
C32_ExactOutput ==
    (tn.pc = "send" /\ tn.calls > 0) => (tn.result = tn.cmd.out /\ tn.err = tn.cmd.err)

\* ---- C34 ---------------------------------------------------------------------
\* C34: when ddwrt_choose_roles() returns, the device in the AP slot was learned
\* in AP mode and the device in the STA slot in client mode, for one or two
\* devices of any capabilities and in any current modes.
C34_SlotsAreCapable ==
    (pc = "next" /\ last_op = NoOp) => (routers[ap_node].ap /\ routers[sta_node].sta)

\* ---- C33 ---------------------------------------------------------------------
\* a device at the address of a name is not the one learned under the name
Mismatch == \E n \in DOMAIN routers : et0macaddr[n] # routers[n].et0macaddr

\* C33: a control device is programmed only over a connection on which it
\* answered the et0macaddr learned under its name; when a device named does
\* not, the run ends at the choice of roles and nothing is programmed on any
\* device.
C33_OnlyKnownDevices ==
    /\ [][\A n \in DOMAIN routers, mode \in Modes :
            Programs(n, mode) => et0macaddr[n] = routers[n].et0macaddr]_vars
    /\ [](Mismatch => /\ pc \in {"idle", "check", "roles"}
                      /\ last_op = NoOp
                      /\ session_log = <<>>
                      /\ \A n \in DOMAIN routers : nvram[n] = EmptyDict)
    /\ [][Mismatch => UNCHANGED <<wl_mode, current_mode, nvram>>]_vars

\* a run has ended at a device that is not the one its name was learned for
C33_Witness ==
    /\ Mismatch
    /\ pc = "idle"
    /\ exit_reason = "unknown device"
    /\ runs > 0

\* ---- C36 ---------------------------------------------------------------------
\* C36: a call of ddwrt_program_mode() that returns leaves cn['current_mode']
\* at the mode it programmed; with one control device the connections of the
\* AP slot and of the STA slot track the same mode; and a call restarts the
\* services only exactly when the mode the device was last put in is the
\* requested one.
C36_TrackedRole ==
    /\ [][\A n \in DOMAIN routers, mode \in Modes :
            Programs(n, mode) =>
                /\ pc' # "idle" => current_mode'[n] = mode
                /\ last_op'.path = "restart" <=> wl_mode[et0macaddr[n]] = mode]_vars
    /\ []((Single /\ pc \notin {"idle", "check", "roles"})
            => current_mode[ap_node] = current_mode[sta_node])

\* ---- C35 ---------------------------------------------------------------------
\* C35: when the join request is pushed, the device in the STA slot was last
\* set to client mode for the factory SSID that the instruction has claimed;
\* when the device is looked for on the target network, the device in the AP
\* slot was last set to AP mode with the SSID and the Password of the
\* instruction; with one and with two control devices, in every attempt.
C35_ProgrammedForCurrent ==
    /\ pc = "push" =>
          pgm[et0macaddr[sta_node]] = Pgm("sta", device_queue[i]["factory_ssid"], None)
    /\ pc = "locate" =>
          pgm[et0macaddr[ap_node]]
              = Pgm("ap", device_queue[i]["SSID"], device_queue[i]["Password"])

\* the join request of the second instruction of the queue is pushed in a
\* second attempt, with two control devices that are set up for it
C35_Witness ==
    /\ pc = "push"
    /\ i = 2
    /\ attempts = 2
    /\ ~Single
    /\ pgm[et0macaddr[ap_node]] = Pgm("ap", "OtherNet", "efg56hi78")
    /\ pgm[et0macaddr[sta_node]] = Pgm("sta", device_queue[2]["factory_ssid"], None)

\* ---- C38 ---------------------------------------------------------------------
\* C38: in query() with the operation apply, the changes are applied to each
\* matching device once at most, in whatever order the devices are found, and
\* when the run is over the settings stored in device_db for a device are
\* settings that were read from that device.
C38_AppliedOnceStoredOwn ==
    /\ \A d \in Devices : bulk.applied[d] <= 1
    /\ bulk.pc = "done" => \A d \in Devices : bulk.settings[d] = d

====
